---- MODULE Spec2Model ----
(***************************************************************************)
(* A model of the accessibility-pattern MCP server's core:                 *)
(*   - the index cache (createIndexCache: getIndex / clear),               *)
(*   - the repository indexer (buildPatternIndex),                         *)
(*   - the query operations (listPatterns, getPattern, getGlobalRules).    *)
(* Strings are sequences of one-character strings, so that trimming,       *)
(* lower-casing, substring search and collation are computed, not assumed. *)
(***************************************************************************)
EXTENDS Integers, Sequences, FiniteSets, TLC

VARIABLES
    \* ---- index cache (createIndexCache) ----
    cacheTtlSeconds,   \* params.cacheTtlSeconds
    now,               \* the wall clock read by Date.now(), in ms
    store,             \* the Map stack -> {index, builtAtMs}
    calls,             \* the getIndex calls: position and locals of each
    cleared,           \* history: a clear covered the stack since its last getIndex
    lastSet,           \* history: the call whose store.set on the stack came last
    indexerCalls,      \* history: number of buildPatternIndex invocations
    \* ---- content repository on disk ----
    baseline,          \* the stack's global/global_rules.md
    catalog,           \* the stack's patterns.json
    components,        \* path -> component file, for the files that exist
    \* ---- one request against an index ----
    patternIndex,      \* the PatternIndex in hand (NoIndex before a build)
    resp,              \* outcome of the last operation
    reads,             \* history: the files read by the last operation, in order
    \* ---- the HTTP server (http.ts) ----
    transports,        \* the session map: session id -> transport
    servers,           \* per transport created: its session id, its cache, closed or not
    reply              \* outcome of the last HTTP request

cacheVars == <<cacheTtlSeconds, now, store, calls, cleared, lastSet, indexerCalls>>
diskVars == <<baseline, catalog, components>>
toolVars == <<patternIndex, resp, reads>>
httpVars == <<transports, servers, reply>>

vars == <<cacheTtlSeconds, now, store, calls, cleared, lastSet, indexerCalls,
          baseline, catalog, components, patternIndex, resp, reads,
          transports, servers, reply>>

----------------------------------------------------------------------------
(* Bounds of the model *)
MaxCalls == 2      \* getIndex calls in one behaviour
MaxSeconds == 1    \* the clock runs from 0 to MaxSeconds seconds
MaxTtl == 1        \* cacheTtlSeconds ranges over 0..MaxTtl

(* Program constants *)
MsPerSecond == 1000

Stacks == {"web/react", "android/compose"}
CallIds == 1..MaxCalls
NoSlot == [absent |-> TRUE]
NoIndex == [none |-> TRUE]

\* The clock advances by half a second or by a whole second.
TickMs == {MsPerSecond \div 2, MsPerSecond}
MaxNowMs == MaxSeconds * MsPerSecond

Missing == [missing |-> TRUE]
\* An absent frontmatter key or argument (no string has this element).
Undefined == <<"undefined">>
NoResp == [op |-> "none"]
NoReply == [method |-> "none"]

\* The parts of the state a specification does not use.
NoDisk == baseline = Missing /\ catalog = Missing /\ components = <<>>
NoRequest == patternIndex = NoIndex /\ resp = NoResp /\ reads = <<>>
NoHttp == transports = <<>> /\ servers = <<>> /\ reply = NoReply
NoCache ==
    /\ cacheTtlSeconds = 0 /\ now = 0 /\ indexerCalls = 0
    /\ store = [s \in Stacks |-> NoSlot]
    /\ calls = <<>>
    /\ cleared = [s \in Stacks |-> FALSE]
    /\ lastSet = [s \in Stacks |-> 0]

----------------------------------------------------------------------------
(* Index cache *)

\* ageSeconds < cacheTtlSeconds, with ageSeconds = (now - builtAtMs) / 1000
\* a real-number division: compared after multiplying both sides by 1000.
FreshMutant(nowMs, builtAtMs, ttl) == (nowMs - builtAtMs) <= ttl * MsPerSecond
Fresh(nowMs, builtAtMs, ttl) == (nowMs - builtAtMs) < ttl * MsPerSecond

IdleCall == [pc |-> "idle", stack |-> "", now |-> 0, cached |-> NoSlot,
             index |-> NoIndex, afterClear |-> FALSE]

\* The index a build produces: a new object per build (builder), with the
\* stack it was built for and the ttl it was given.
NewIndex(c, s) == [stack |-> s, builder |-> c, cache_ttl_seconds |-> cacheTtlSeconds]

NextCall == IF \E c \in CallIds : calls[c].pc = "idle"
            THEN CHOOSE c \in CallIds : calls[c].pc = "idle"
                      /\ \A d \in CallIds : calls[d].pc = "idle" => c <= d
            ELSE 0

\* getIndex(stack), up to its return (cache hit) or its first suspension
\* (await buildPatternIndex).
GetIndex(s) ==
    /\ NextCall # 0
    /\ LET c == NextCall
           cached == store[s]
           hit == cached # NoSlot /\ Fresh(now, cached.builtAtMs, cacheTtlSeconds)
       IN /\ calls' = [calls EXCEPT ![c] =
                 [pc |-> IF hit THEN "hit" ELSE "building",
                  stack |-> s, now |-> now, cached |-> cached,
                  index |-> IF hit THEN cached.index ELSE NoIndex,
                  afterClear |-> cleared[s]]]
          /\ indexerCalls' = IF hit THEN indexerCalls ELSE indexerCalls + 1
    /\ cleared' = [cleared EXCEPT ![s] = FALSE]
    /\ UNCHANGED <<cacheTtlSeconds, now, store, lastSet, diskVars, toolVars, httpVars>>

\* buildPatternIndex rejects (missing file, malformed content): the await
\* throws and getIndex rejects without touching store.
BuildRejectMutant(c) ==
    /\ calls[c].pc = "building"
    /\ calls' = [calls EXCEPT ![c].pc = "failed"]
    /\ store' = [store EXCEPT ![calls[c].stack] =
                              [index |-> NoIndex, builtAtMs |-> calls[c].now]]
    /\ UNCHANGED <<cacheTtlSeconds, now, cleared, lastSet, indexerCalls, diskVars, toolVars, httpVars>>
BuildReject(c) ==
    /\ calls[c].pc = "building"
    /\ calls' = [calls EXCEPT ![c].pc = "failed"]
    /\ UNCHANGED <<cacheTtlSeconds, now, store, cleared, lastSet, indexerCalls, diskVars, toolVars, httpVars>>

\* The slot written by the continuation of getIndex.
SetSlotMutant(c, index) ==
    IF store[calls[c].stack] = NoSlot
    THEN [index |-> index, builtAtMs |-> calls[c].now]
    ELSE store[calls[c].stack]
SetSlotAtEndMutant(c, index) == [index |-> index, builtAtMs |-> now]
SetSlot(c, index) == [index |-> index, builtAtMs |-> calls[c].now]

\* buildPatternIndex resolves and getIndex resumes after the await:
\* store.set(stack, {index, builtAtMs: now}) with the now read at the start
\* of the call; return index.
GetIndexResume(c) ==
    /\ calls[c].pc = "building"
    /\ LET index == NewIndex(c, calls[c].stack)
       IN /\ store' = [store EXCEPT ![calls[c].stack] = SetSlot(c, index)]
          /\ calls' = [calls EXCEPT ![c].pc = "done", ![c].index = index]
    /\ lastSet' = [lastSet EXCEPT ![calls[c].stack] = c]
    /\ UNCHANGED <<cacheTtlSeconds, now, cleared, indexerCalls, diskVars, toolVars, httpVars>>

\* The store after clear(stack): store.delete(stack).
ClearOneMutant(s) == [t \in Stacks |-> NoSlot]
ClearOne(s) == [store EXCEPT ![s] = NoSlot]

\* clear(stack) with a stack argument.
Clear(s) ==
    /\ store' = ClearOne(s)
    /\ cleared' = [cleared EXCEPT ![s] = TRUE]
    /\ lastSet' = [lastSet EXCEPT ![s] = 0]
    /\ UNCHANGED <<cacheTtlSeconds, now, calls, indexerCalls, diskVars, toolVars, httpVars>>

\* clear() without argument: store.clear().
ClearAll ==
    /\ store' = [t \in Stacks |-> NoSlot]
    /\ cleared' = [t \in Stacks |-> TRUE]
    /\ lastSet' = [t \in Stacks |-> 0]
    /\ UNCHANGED <<cacheTtlSeconds, now, calls, indexerCalls, diskVars, toolVars, httpVars>>

\* Time passes.
Tick(d) ==
    /\ now + d <= MaxNowMs
    /\ now' = now + d
    /\ UNCHANGED <<cacheTtlSeconds, store, calls, cleared, lastSet, indexerCalls, diskVars, toolVars, httpVars>>

Init ==
    /\ cacheTtlSeconds \in 0..MaxTtl
    /\ now = 0
    /\ store = [s \in Stacks |-> NoSlot]
    /\ calls = [c \in CallIds |-> IdleCall]
    /\ cleared = [s \in Stacks |-> FALSE]
    /\ lastSet = [s \in Stacks |-> 0]
    /\ indexerCalls = 0
    /\ NoDisk
    /\ NoRequest
    /\ NoHttp

Next ==
    \/ \E s \in Stacks : GetIndex(s)
    \/ \E c \in CallIds : BuildReject(c)
    \/ \E c \in CallIds : GetIndexResume(c)
    \/ \E s \in Stacks : Clear(s)
    \/ ClearAll
    \/ \E d \in TickMs : Tick(d)

Spec == Init /\ [][Next]_vars

----------------------------------------------------------------------------
(* Strings: sequences of characters over a small alphabet *)

Space == " "
Tab == "\t"
NewLine == "\n"
WhiteSpace == {Space, Tab, NewLine}

\* String.prototype.trim
RECURSIVE TrimStart(_)
TrimStart(s) == IF s # <<>> /\ Head(s) \in WhiteSpace THEN TrimStart(Tail(s)) ELSE s
RECURSIVE TrimEnd(_)
TrimEnd(s) ==
    IF s # <<>> /\ s[Len(s)] \in WhiteSpace
    THEN TrimEnd(SubSeq(s, 1, Len(s) - 1)) ELSE s
Trim(s) == TrimEnd(TrimStart(s))

\* String.prototype.toLowerCase. The label of a recognized heading is one
\* symbol of the alphabet, in title case or in lower case.
LowerChar(c) == CASE c = "A" -> "a" [] c = "B" -> "b"
                  [] c = "Use When" -> "use when"
                  [] c = "Do Not Use When" -> "do not use when"
                  [] c = "Must Haves" -> "must haves"
                  [] c = "Customizable" -> "customizable"
                  [] c = "Don'ts" -> "don'ts"
                  [] c = "Donts" -> "donts"
                  [] c = "Golden Pattern" -> "golden pattern"
                  [] c = "Acceptance Checks" -> "acceptance checks"
                  [] c = "Snippets" -> "snippets"
                  [] c = "Yaml" -> "yaml"
                  [] OTHER -> c
ToLowerCase(s) == [i \in 1..Len(s) |-> LowerChar(s[i])]

\* String.prototype.includes
Includes(s, q) ==
    \E i \in 0..(Len(s) - Len(q)) : SubSeq(s, i + 1, i + Len(q)) = q

\* String(x ?? ""): the frontmatter value as a string (absent key: "")
StringOrEmpty(x) == IF x = Undefined THEN <<>> ELSE x

\* String.prototype.localeCompare under the default (root/English) collation:
\* strings are compared by the letters first, whatever their case, a space
\* sorting before every letter; strings with the same letters are then
\* ordered by case, lower case first.
PrimaryWeight(c) == CASE c = Tab -> 0
                      [] c = NewLine -> 1
                      [] c = Space -> 2
                      [] c \in {"a", "A"} -> 3
                      [] c \in {"b", "B"} -> 4
                      [] OTHER -> 5
TertiaryWeight(c) == IF c \in {"A", "B"} THEN 1 ELSE 0

RECURSIVE CompareWeights(_, _)
CompareWeights(x, y) ==
    IF x = <<>> /\ y = <<>> THEN 0
    ELSE IF x = <<>> THEN -1
    ELSE IF y = <<>> THEN 1
    ELSE IF Head(x) < Head(y) THEN -1
    ELSE IF Head(x) > Head(y) THEN 1
    ELSE CompareWeights(Tail(x), Tail(y))

LocaleCompare(a, b) ==
    LET p == CompareWeights([i \in 1..Len(a) |-> PrimaryWeight(a[i])],
                            [i \in 1..Len(b) |-> PrimaryWeight(b[i])])
    IN IF p # 0 THEN p
       ELSE CompareWeights([i \in 1..Len(a) |-> TertiaryWeight(a[i])],
                           [i \in 1..Len(b) |-> TertiaryWeight(b[i])])

\* Array.prototype.sort((a, b) => a.localeCompare(b)) on strings: a stable
\* sort, here by insertion.
RECURSIVE InsertString(_, _)
InsertString(sorted, x) ==
    IF sorted = <<>> THEN <<x>>
    ELSE IF LocaleCompare(x, Head(sorted)) < 0 THEN <<x>> \o sorted
    ELSE <<Head(sorted)>> \o InsertString(Tail(sorted), x)
RECURSIVE SortStrings(_)
SortStrings(xs) ==
    IF xs = <<>> THEN <<>>
    ELSE InsertString(SortStrings(SubSeq(xs, 1, Len(xs) - 1)), xs[Len(xs)])

\* Array.from(new Set(xs)): the first occurrence of each value, in order
RECURSIVE Unique(_)
Unique(xs) ==
    IF xs = <<>> THEN <<>>
    ELSE LET init == Unique(SubSeq(xs, 1, Len(xs) - 1))
             x == xs[Len(xs)]
         IN IF \E i \in 1..Len(init) : init[i] = x THEN init ELSE Append(init, x)

SeqFilter(xs, Keep(_)) == SelectSeq(xs, Keep)
Range(xs) == {xs[i] : i \in 1..Len(xs)}

----------------------------------------------------------------------------
(* Repository indexer: buildPatternIndex *)

\* uniqSorted(values)
NonEmptyString(s) == s # <<>>
UniqSorted(values) ==
    SortStrings(Unique(SelectSeq([i \in 1..Len(values) |-> Trim(values[i])],
                                 NonEmptyString)))

\* Array.isArray(data.tags) ? data.tags.map(String) : []
StringArray(v) == IF v = Undefined THEN <<>> ELSE v

AllowedStatus == {"alpha", "beta", "stable", "deprecated"}

Failure(message) == [ok |-> FALSE, message |-> message]

\* all.sort((a, b) => a.id.localeCompare(b.id)), stable
RECURSIVE InsertById(_, _)
InsertById(sorted, x) ==
    IF sorted = <<>> THEN <<x>>
    ELSE IF LocaleCompare(x.id, Head(sorted).id) < 0 THEN <<x>> \o sorted
    ELSE <<Head(sorted)>> \o InsertById(Tail(sorted), x)
SortByIdMutant(xs) == xs
RECURSIVE SortById(_)
SortById(xs) ==
    IF xs = <<>> THEN <<>>
    ELSE InsertById(SortById(SubSeq(xs, 1, Len(xs) - 1)), xs[Len(xs)])

\* The body of the loop over componentPaths for one file: the summary of the
\* file, or the error it raises. acc is {byId, idToPath, all} so far.
IndexOneFile(acc, filePath, raw, stack, selectionById) ==
    LET data == raw.data
        id == Trim(StringOrEmpty(data.id))
        \* stack and status are whole names, "" when the key is absent
        declaredStack == data.stack
        status == data.status
        summary == Trim(StringOrEmpty(data.summary))
        tags == StringArray(data.tags)
        aliases == StringArray(data.aliases)
        base == [id |-> id, stack |-> stack, status |-> status, summary |-> summary,
                 tags |-> UniqSorted(tags), aliases |-> UniqSorted(aliases),
                 selection_excerpt |-> IF id \in DOMAIN selectionById
                                       THEN selectionById[id] ELSE Undefined]
    IN IF id = <<>>
       THEN Failure(<<"Pattern missing 'id' in frontmatter: ", filePath>>)
       ELSE IF declaredStack # "" /\ declaredStack # stack
       THEN Failure(<<"Pattern declares stack but is located under stack", id,
                      declaredStack, stack>>)
       ELSE IF summary = <<>>
       THEN Failure(<<"Pattern missing 'summary' in frontmatter: ", filePath>>)
       ELSE IF status \notin AllowedStatus
       THEN Failure(<<"Invalid status in file", status, filePath>>)
       ELSE IF id \in DOMAIN acc.byId
       THEN Failure(<<"Duplicate pattern id found. Second copy: ", id, filePath>>)
       ELSE [ok |-> TRUE,
             byId |-> (id :> base) @@ acc.byId,
             idToPath |-> (id :> filePath) @@ acc.idToPath,
             all |-> Append(acc.all, base)]

RECURSIVE IndexFiles(_, _, _, _, _)
IndexFiles(acc, componentPaths, fileTextByPath, stack, selectionById) ==
    IF componentPaths = <<>> \/ ~acc.ok THEN acc
    ELSE IndexFiles(IndexOneFile(acc, Head(componentPaths),
                                 fileTextByPath[Head(componentPaths)],
                                 stack, selectionById),
                    Tail(componentPaths), fileTextByPath, stack, selectionById)

\* sha256 of the canonical text, the digest taken as collision-free. Here
\* every text is taken whole (a file is its frontmatter and body), so the
\* revision stands for the list of tagged parts; the join of the parts into
\* one string is CanonicalString below.
CatalogRevision(stack, baselineText, catalogText, componentPaths, fileTextByPath) ==
    <<"sha256:", <<"stack:", stack>>, <<"baseline:", baselineText>>,
      <<"catalog:", catalogText>>,
      [i \in 1..Len(componentPaths) |-> <<"component_path:", componentPaths[i]>>],
      [i \in 1..Len(componentPaths) |->
            <<"component_text:", fileTextByPath[componentPaths[i]]>>]>>

\* parts.join(sep)
RECURSIVE Join(_, _)
Join(parts, sep) ==
    IF parts = <<>> THEN <<>>
    ELSE IF Len(parts) = 1 THEN parts[1]
    ELSE parts[1] \o sep \o Join(Tail(parts), sep)

\* The string that is hashed, on texts given character by character: the
\* tagged parts joined by "\n\n". A tag is one symbol, here and where a text
\* contains the tag's characters.
CanonicalString(stack, baselineText, catalogText, componentPaths, fileTextByPath) ==
    Join(<<<<"stack:", stack>>,
           <<"baseline:">> \o baselineText,
           <<"catalog:">> \o catalogText>>
         \o [i \in 1..Len(componentPaths) |-> <<"component_path:">> \o componentPaths[i]]
         \o [i \in 1..Len(componentPaths) |->
                <<"component_text:">> \o fileTextByPath[componentPaths[i]]],
         <<NewLine, NewLine>>)

\* buildPatternIndex(patternRepoPath, stack, cacheTtlSeconds) over the files
\* on disk; found is the list of paths as the glob enumerates them.
BuildPatternIndex(stack, ttl, found) ==
    IF baseline = Missing THEN Failure(<<"Missing baseline file: ", stack>>)
    ELSE IF catalog = Missing THEN Failure(<<"Missing catalog file: ", stack>>)
    ELSE IF ~catalog.json THEN Failure(<<"patterns.json is not valid JSON.">>)
    ELSE
      LET componentPaths == SortStrings(found)
          built == IndexFiles([ok |-> TRUE, byId |-> <<>>, idToPath |-> <<>>,
                               all |-> <<>>],
                              componentPaths, components, stack, catalog.selection)
      IN IF ~built.ok THEN built
         ELSE [ok |-> TRUE,
               stack |-> stack,
               cache |-> [catalog_revision |->
                              CatalogRevision(stack, baseline, catalog,
                                              componentPaths, components),
                          cache_ttl_seconds |-> ttl],
               byId |-> built.byId,
               idToPath |-> built.idToPath,
               all |-> SortById(built.all)]

\* The files a build reads, in order: the two required files, then every
\* component once, in sorted path order.
BuildReadsMutant(found) == <<"global_rules.md", "patterns.json">> \o SortStrings(found)
BuildReads(found) ==
    IF baseline = Missing \/ catalog = Missing THEN <<>>
    ELSE IF ~catalog.json THEN <<"global_rules.md", "patterns.json">>
    ELSE <<"global_rules.md", "patterns.json">> \o SortStrings(found)

\* The orders in which the glob may enumerate the existing component files.
Enumerations ==
    {f \in [1..Cardinality(DOMAIN components) -> DOMAIN components] :
        \A i, j \in DOMAIN f : i # j => f[i] # f[j]}

\* The loop body of buildPatternIndex in src/repo/index.ts: no check of the
\* declared stack, tags and aliases as written, no selection excerpt.
IndexOneFileTs(acc, filePath, raw, stack) ==
    LET data == raw.data
        id == Trim(StringOrEmpty(data.id))
        status == data.status
        summary == Trim(StringOrEmpty(data.summary))
        pattern == [id |-> id, stack |-> stack, status |-> status, summary |-> summary,
                    tags |-> StringArray(data.tags),
                    aliases |-> StringArray(data.aliases)]
    IN IF id = <<>>
       THEN Failure(<<"Pattern missing 'id' in frontmatter: ", filePath>>)
       ELSE IF summary = <<>>
       THEN Failure(<<"Pattern missing 'summary' in frontmatter: ", filePath>>)
       ELSE IF status \notin AllowedStatus
       THEN Failure(<<"Invalid status in file", status, filePath>>)
       ELSE IF id \in DOMAIN acc.byId
       THEN Failure(<<"Duplicate pattern id found. Second copy: ", id, filePath>>)
       ELSE [ok |-> TRUE,
             byId |-> (id :> pattern) @@ acc.byId,
             idToPath |-> (id :> filePath) @@ acc.idToPath,
             all |-> Append(acc.all, pattern)]

RECURSIVE IndexFilesTs(_, _, _, _)
IndexFilesTs(acc, componentPaths, fileTextByPath, stack) ==
    IF componentPaths = <<>> \/ ~acc.ok THEN acc
    ELSE IndexFilesTs(IndexOneFileTs(acc, Head(componentPaths),
                                     fileTextByPath[Head(componentPaths)], stack),
                      Tail(componentPaths), fileTextByPath, stack)

\* The revision of src/repo/index.ts: the component texts in the order of
\* enumeration, each tagged with its position, the paths left out.
CatalogRevisionTs(stack, baselineText, catalogText, componentPaths, fileTextByPath) ==
    <<"sha256:", <<"stack:", stack>>, <<"baseline:", baselineText>>,
      <<"catalog:", catalogText>>,
      [i \in 1..Len(componentPaths) |->
            <<"component_", i - 1, fileTextByPath[componentPaths[i]]>>]>>

\* buildPatternIndex of src/repo/index.ts; found is the list of paths as the
\* glob enumerates them, used as it comes.
BuildPatternIndexTs(stack, ttl, found) ==
    IF baseline = Missing THEN Failure(<<"Missing baseline file: ", stack>>)
    ELSE IF catalog = Missing THEN Failure(<<"Missing catalog file: ", stack>>)
    ELSE
      LET componentPaths == found
          built == IndexFilesTs([ok |-> TRUE, byId |-> <<>>, idToPath |-> <<>>,
                                 all |-> <<>>],
                                componentPaths, components, stack)
      IN IF ~built.ok THEN built
         ELSE [ok |-> TRUE,
               stack |-> stack,
               cache |-> [catalog_revision |->
                              CatalogRevisionTs(stack, baseline, catalog,
                                                componentPaths, components),
                          cache_ttl_seconds |-> ttl],
               byId |-> built.byId,
               idToPath |-> built.idToPath,
               all |-> SortById(built.all)]

\* The files the loop of src/repo/index.ts reads again while it parses: each
\* file up to the first one that raises an error.
RECURSIVE ParseReadsTs(_, _, _)
ParseReadsTs(acc, componentPaths, stack) ==
    IF componentPaths = <<>> \/ ~acc.ok THEN <<>>
    ELSE <<Head(componentPaths)>> \o
         ParseReadsTs(IndexOneFileTs(acc, Head(componentPaths),
                                     components[Head(componentPaths)], stack),
                      Tail(componentPaths), stack)

\* The files a build of src/repo/index.ts reads, in order: the two required
\* files, every component for the revision, then the components again.
BuildReadsTs(stack, found) ==
    IF baseline = Missing \/ catalog = Missing THEN <<>>
    ELSE <<"global_rules.md", "patterns.json">> \o found \o
         ParseReadsTs([ok |-> TRUE, byId |-> <<>>, idToPath |-> <<>>, all |-> <<>>],
                      found, stack)

\* The repository carries two modules under each of the names
\* buildPatternIndex and getGlobalRules: the compiled one and the TypeScript
\* source under src/.
Modules == {"compiled", "typescript"}

\* One call of buildPatternIndex, served by either module.
Build(module, stack, ttl) ==
    /\ resp.op = "none"
    /\ \E found \in Enumerations :
         LET r == IF module = "compiled" THEN BuildPatternIndex(stack, ttl, found)
                  ELSE BuildPatternIndexTs(stack, ttl, found)
         IN /\ patternIndex' = IF r.ok THEN r ELSE NoIndex
            /\ resp' = [op |-> "buildPatternIndex", module |-> module,
                        stack |-> stack, ttl |-> ttl, result |-> r]
            /\ reads' = IF module = "compiled" THEN BuildReads(found)
                        ELSE BuildReadsTs(stack, found)
    /\ UNCHANGED <<httpVars, cacheVars, diskVars>>

NoResult == [none |-> TRUE]

\* The inputs of the revision as they are on disk
HashInput(stack) ==
    [stack |-> stack, baseline |-> baseline, catalog |-> catalog,
     components |-> components]

\* The revision part of one build (lines 121-149): the paths sorted, the
\* canonical string digested. The first of two builds is for web/react.
Hash(stack) ==
    /\ resp.op \in {"none", "rewrite"}
    /\ resp.op = "none" => stack = "web/react"
    /\ \E found \in Enumerations :
         resp' = [op |-> "catalog_revision",
                  input |-> HashInput(stack),
                  revision |-> <<"sha256:",
                                 CanonicalString(stack, baseline, catalog,
                                                 SortStrings(found), components)>>,
                  before |-> IF resp.op = "rewrite" THEN resp.before ELSE NoResult]
    /\ UNCHANGED <<httpVars, cacheVars, diskVars, patternIndex, reads>>

\* The repository is given another content between two builds.
Rewrite(baselineText, catalogText, texts) ==
    /\ resp.op = "catalog_revision"
    /\ resp.before = NoResult
    /\ baseline' = baselineText
    /\ catalog' = catalogText
    /\ components' = texts
    /\ resp' = [op |-> "rewrite",
                before |-> [input |-> resp.input, revision |-> resp.revision]]
    /\ UNCHANGED <<httpVars, cacheVars, patternIndex, reads>>

----------------------------------------------------------------------------
(* Pattern sections: extractSections. A markdown text is the sequence of
   its lines (the text split at "\n"); the empty text has no line. *)

Null == <<"null">>

BlankLine(line) == Trim(line) = <<>>

\* text.trim() on a text given by its lines
RECURSIVE DropBlankStart(_)
DropBlankStart(lines) ==
    IF lines # <<>> /\ BlankLine(Head(lines)) THEN DropBlankStart(Tail(lines))
    ELSE lines
RECURSIVE DropBlankEnd(_)
DropBlankEnd(lines) ==
    IF lines # <<>> /\ BlankLine(lines[Len(lines)])
    THEN DropBlankEnd(SubSeq(lines, 1, Len(lines) - 1)) ELSE lines
TrimTextMutant(lines) == lines
TrimText(lines) ==
    LET kept == DropBlankEnd(DropBlankStart(lines))
    IN IF kept = <<>> THEN <<>>
       ELSE IF Len(kept) = 1 THEN <<Trim(kept[1])>>
       ELSE <<TrimStart(kept[1])>> \o SubSeq(kept, 2, Len(kept) - 1)
                \o <<TrimEnd(kept[Len(kept)])>>

\* line.match(/^##\s+(.*)$/): the captured text, or Null
H2MatchMutant(line) ==
    IF Len(line) >= 3 /\ line[1] = "#" /\ line[2] = "#" /\ line[3] \in WhiteSpace
    THEN TrimStart(SubSeq(line, 3, Len(line)))
    ELSE IF Len(line) >= 4 /\ line[1] = "#" /\ line[2] = "#" /\ line[3] = "#"
            /\ line[4] \in WhiteSpace
    THEN TrimStart(SubSeq(line, 4, Len(line))) ELSE Null
H2Match(line) ==
    IF Len(line) >= 3 /\ line[1] = "#" /\ line[2] = "#" /\ line[3] \in WhiteSpace
    THEN TrimStart(SubSeq(line, 3, Len(line))) ELSE Null

\* splitByH2(markdown): the parts {heading, body} in order
RECURSIVE SplitByH2Loop(_, _, _, _)
SplitByH2Loop(lines, currentHeading, currentBody, result) ==
    LET pushed == IF currentHeading = Null /\ TrimText(currentBody) = <<>>
                  THEN result
                  ELSE Append(result, [heading |-> currentHeading, body |-> currentBody])
    IN IF lines = <<>> THEN pushed
       ELSE IF H2Match(Head(lines)) # Null
       THEN SplitByH2Loop(Tail(lines), Trim(H2Match(Head(lines))), <<>>, pushed)
       ELSE SplitByH2Loop(Tail(lines), currentHeading,
                          Append(currentBody, Head(lines)), result)
SplitByH2(lines) == SplitByH2Loop(lines, Null, <<>>, <<>>)

\* HEADING_TO_KEY
HeadingToKey(heading) ==
    CASE heading = <<"use when">> -> "use_when"
      [] heading = <<"do not use when">> -> "do_not_use_when"
      [] heading = <<"must haves">> -> "must_haves"
      [] heading = <<"customizable">> -> "customizable"
      [] heading = <<"don'ts">> -> "donts"
      [] heading = <<"donts">> -> "donts"
      [] heading = <<"golden pattern">> -> "golden_pattern"
      [] OTHER -> "none"

\* rawByKey[key] after the loop over the parts: the trimmed body of the last
\* part whose heading maps to key, Null if there is none
RECURSIVE RawByKey(_, _)
RawByKey(parts, key) ==
    IF parts = <<>> THEN Null
    ELSE LET part == parts[Len(parts)]
             heading == IF part.heading = Null THEN <<>>
                        ELSE ToLowerCase(Trim(part.heading))
         IN IF HeadingToKey(heading) = key THEN TrimText(part.body)
            ELSE RawByKey(SubSeq(parts, 1, Len(parts) - 1), key)

\* line.replace(/\t/g, "  ")
RECURSIVE ExpandTabs(_)
ExpandTabs(line) ==
    IF line = <<>> THEN <<>>
    ELSE (IF Head(line) = Tab THEN <<Space, Space>> ELSE <<Head(line)>>)
            \o ExpandTabs(Tail(line))

LeadingSpaces(line) == Len(line) - Len(TrimStart(line))

\* line.match(/^\s{2,}[-*]\s+(.*)$/): the captured text, or Null
NestedMatch(line) ==
    LET n == LeadingSpaces(line)
    IN IF n >= 2 /\ Len(line) >= n + 2 /\ line[n + 1] \in {"-", "*"}
          /\ line[n + 2] \in WhiteSpace
       THEN TrimStart(SubSeq(line, n + 2, Len(line))) ELSE Null

\* line.match(/^[-*]\s+(.*)$/)
TopDashMatch(line) ==
    IF Len(line) >= 2 /\ line[1] \in {"-", "*"} /\ line[2] \in WhiteSpace
    THEN TrimStart(SubSeq(line, 2, Len(line))) ELSE Null

\* line.match(/^\d+\.\s+(.*)$/)
Digits == {"0", "1", "2"}
RECURSIVE LeadingDigits(_)
LeadingDigits(line) ==
    IF line # <<>> /\ Head(line) \in Digits THEN 1 + LeadingDigits(Tail(line)) ELSE 0
TopNumMatch(line) ==
    LET n == LeadingDigits(line)
    IN IF n >= 1 /\ Len(line) >= n + 2 /\ line[n + 1] = "." /\ line[n + 2] \in WhiteSpace
       THEN TrimStart(SubSeq(line, n + 2, Len(line))) ELSE Null

\* `${current}\n${nested.map((n) => `  - ${n}`).join("\n")}`
NestedLinesMutant(nested) == <<>>
RECURSIVE NestedLines(_)
NestedLines(nested) ==
    IF nested = <<>> THEN <<>>
    ELSE <<NewLine, Space, Space, "-", Space>> \o Head(nested) \o NestedLines(Tail(nested))

\* flushCurrent(): the items after the open bullet is flushed
Flushed(items, current, nested) ==
    IF current = Null \/ current = <<>> THEN items
    ELSE Append(items, current \o NestedLines(nested))

\* `${current} ${trimmed}`.trim(): wrapped text continues the open bullet
ContinuedMutant(current, trimmed) == current
Continued(current, trimmed) == Trim(current \o <<Space>> \o trimmed)

\* the loop of toBulletArray over the lines
RECURSIVE BulletLoop(_, _, _, _)
BulletLoop(lines, items, current, nested) ==
    IF lines = <<>> THEN Flushed(items, current, nested)
    ELSE
      LET line == ExpandTabs(Head(lines))
          trimmed == Trim(line)
          open == current # Null /\ current # <<>>
          top == IF TopDashMatch(line) # Null THEN TopDashMatch(line)
                 ELSE TopNumMatch(line)
      IN IF trimmed = <<>> THEN BulletLoop(Tail(lines), items, current, nested)
         ELSE IF NestedMatch(line) # Null /\ open
         THEN BulletLoop(Tail(lines), items, current,
                         Append(nested, Trim(NestedMatch(line))))
         ELSE IF top # Null
         THEN BulletLoop(Tail(lines), Flushed(items, current, nested), Trim(top),
                         IF open THEN <<>> ELSE nested)
         ELSE IF open
         THEN BulletLoop(Tail(lines), items, Continued(current, trimmed), nested)
         ELSE BulletLoop(Tail(lines), items, current, nested)

\* toBulletArray(sectionMarkdown)
ToBulletArray(sectionMarkdown) ==
    IF sectionMarkdown = Null \/ sectionMarkdown = <<>> THEN <<>>
    ELSE BulletLoop(sectionMarkdown, <<>>, Null, <<>>)

\* extractSections(markdownBody)
ExtractSections(markdownBody) ==
    LET parts == SplitByH2(markdownBody)
        rawGolden == RawByKey(parts, "golden_pattern")
        golden == IF rawGolden = Null THEN <<>> ELSE TrimText(rawGolden)
    IN [use_when |-> ToBulletArray(RawByKey(parts, "use_when")),
        do_not_use_when |-> ToBulletArray(RawByKey(parts, "do_not_use_when")),
        must_haves |-> ToBulletArray(RawByKey(parts, "must_haves")),
        customizable |-> ToBulletArray(RawByKey(parts, "customizable")),
        donts |-> ToBulletArray(RawByKey(parts, "donts")),
        golden_pattern |-> IF golden # <<>> THEN golden ELSE Null]

\* heading.replace(/[:.]+$/, "")
RECURSIVE TrimDots(_)
TrimDots(s) ==
    IF s # <<>> /\ s[Len(s)] \in {":", "."} THEN TrimDots(SubSeq(s, 1, Len(s) - 1)) ELSE s

\* rawByKey[key] of the compiled module: the heading is trimmed, lower-cased
\* and then freed of the colons and periods at its end
RECURSIVE RawByKeyJs(_, _)
RawByKeyJs(parts, key) ==
    IF parts = <<>> THEN Null
    ELSE LET part == parts[Len(parts)]
             heading == IF part.heading = Null THEN <<>>
                        ELSE TrimDots(ToLowerCase(Trim(part.heading)))
         IN IF HeadingToKey(heading) = key THEN TrimText(part.body)
            ELSE RawByKeyJs(SubSeq(parts, 1, Len(parts) - 1), key)

\* extractSections(markdownBody) of the compiled module
ExtractSectionsJs(markdownBody) ==
    LET parts == SplitByH2(markdownBody)
        rawGolden == RawByKeyJs(parts, "golden_pattern")
        golden == IF rawGolden = Null THEN <<>> ELSE TrimText(rawGolden)
    IN [use_when |-> ToBulletArray(RawByKeyJs(parts, "use_when")),
        do_not_use_when |-> ToBulletArray(RawByKeyJs(parts, "do_not_use_when")),
        must_haves |-> ToBulletArray(RawByKeyJs(parts, "must_haves")),
        customizable |-> ToBulletArray(RawByKeyJs(parts, "customizable")),
        donts |-> ToBulletArray(RawByKeyJs(parts, "donts")),
        golden_pattern |-> IF golden # <<>> THEN golden ELSE Null]

----------------------------------------------------------------------------
(* Global rules: parseGlobalRulesMarkdown. The baseline document is taken
   as gray-matter delivers it, and its content by the "## Rule:" headings in
   document order: each heading with the title captured after "Rule:" and
   the lines below it up to the next such heading. A line is a sequence of
   symbols; the fence mark, a key with its colon ("id:", "scope:"), a
   scope tag and a language tag are one symbol each. *)

NoPolicy == [declared |-> FALSE]

ALLOWED_SCOPES == {"utility", "style", "component", "layout", "page"}

\* raw.trim().toLowerCase() on a scope token
NormalizeScopeToken(raw) ==
    CASE raw = "Page" -> "page"
      [] raw = " page " -> "page"
      [] raw = "UTILITY" -> "utility"
      [] OTHER -> raw

\* the five tags in the order of localeCompare
ScopesInOrder == <<"component", "layout", "page", "style", "utility">>

\* toRuleScopeArray(raw, ctx): every token checked, then de-duplicated and
\* sorted; Null stands for the error thrown on an invalid token
ToRuleScopeArrayMutant(raw) == [i \in 1..Len(raw) |-> NormalizeScopeToken(raw[i])]
ToRuleScopeArray(raw) ==
    LET out == {NormalizeScopeToken(raw[i]) : i \in 1..Len(raw)}
        InOut(tag) == tag \in out
    IN IF \E i \in 1..Len(raw) : NormalizeScopeToken(raw[i]) \notin ALLOWED_SCOPES
       THEN Null
       ELSE SelectSeq(ScopesInOrder, InOut)

\* parseApplyPolicy(value, ctx); value is NoPolicy or an object with
\* instruction and scopes_in_order
ParseApplyPolicy(value) ==
    IF ~value.declared THEN [ok |-> TRUE, policy |-> Null]
    ELSE LET rawScopes == IF value.scopes_in_order = Null \/ value.scopes_in_order = <<>>
                          THEN Null ELSE value.scopes_in_order
             scopes == IF rawScopes = Null THEN Null ELSE ToRuleScopeArray(rawScopes)
         IN IF rawScopes # Null /\ scopes = Null
            THEN Failure(<<"global rules frontmatter: apply_policy.scopes_in_order: invalid scope">>)
            ELSE IF value.instruction = <<>> /\ scopes = Null
            THEN [ok |-> TRUE, policy |-> Null]
            ELSE [ok |-> TRUE,
                  policy |-> [instruction |-> IF value.instruction = <<>> THEN Null
                                              ELSE value.instruction,
                              scopes_in_order |-> scopes]]

\* snippets.sort by language + "\n" + code
SnippetKey(b) == b.language \o <<NewLine>> \o b.code
RECURSIVE InsertSnippet(_, _)
InsertSnippet(sorted, x) ==
    IF sorted = <<>> THEN <<x>>
    ELSE IF LocaleCompare(SnippetKey(x), SnippetKey(Head(sorted))) < 0 THEN <<x>> \o sorted
    ELSE <<Head(sorted)>> \o InsertSnippet(Tail(sorted), x)
RECURSIVE SortSnippets(_)
SortSnippets(xs) ==
    IF xs = <<>> THEN <<>>
    ELSE InsertSnippet(SortSnippets(SubSeq(xs, 1, Len(xs) - 1)), xs[Len(xs)])

\* toBullets(sectionMarkdown): the same scan as toBulletArray
ToBullets(sectionMarkdown) == ToBulletArray(sectionMarkdown)

\* the three backquotes that open and close a fenced block (FENCE in the
\* patterns below)
FenceMark == "fence"

\* text.split("\n"): the lines of a text given symbol by symbol
RECURSIVE SplitLines(_, _)
SplitLines(text, line) ==
    IF text = <<>> THEN <<line>>
    ELSE IF Head(text) = NewLine THEN <<line>> \o SplitLines(Tail(text), <<>>)
    ELSE SplitLines(Tail(text), Append(line, Head(text)))

\* the symbols made of the characters [a-zA-Z0-9_-] only
WordSymbols == {"a", "b", "A", "B", "0", "1", "2", "-", "yaml", "Yaml"}
RECURSIVE LeadingWord(_)
LeadingWord(s) ==
    IF s # <<>> /\ Head(s) \in WordSymbols THEN <<Head(s)>> \o LeadingWord(Tail(s))
    ELSE <<>>

\* the match of /FENCE([a-zA-Z0-9_-]+)?\s*\n([\s\S]*?)\n?FENCE/ that starts at
\* position i of the text: the optional tag, white space that holds a line
\* break, then the code up to the next fence mark. With lineStart the
\* pattern ends in \nFENCE (the compiled module): the mark that closes
\* stands behind a line break of its own, and the greedy white space takes
\* the line breaks in front of the code first, so a mark right behind them
\* closes only when no later mark does.
FenceAt(text, i, lineStart) ==
    LET tag == LeadingWord(SubSeq(text, i + 1, Len(text)))
        from == i + 1 + Len(tag)
        rest == SubSeq(text, from, Len(text))
        code == from + (Len(rest) - Len(TrimStart(rest)))
        breaks == {k \in from..(code - 1) : text[k] = NewLine}
        later == {k \in (code + 1)..Len(text) :
                    text[k] = FenceMark /\ text[k - 1] = NewLine}
        closes == IF ~lineStart THEN {k \in code..Len(text) : text[k] = FenceMark}
                  ELSE IF later # {} THEN later
                  ELSE {k \in {code} : /\ k <= Len(text)
                                       /\ text[k] = FenceMark
                                       /\ text[k - 1] = NewLine
                                       /\ Cardinality(breaks) >= 2}
    IN IF text[i] = FenceMark /\ breaks # {} /\ closes # {}
       THEN LET close == CHOOSE k \in closes : \A c \in closes : k <= c
            IN [found |-> TRUE, tag |-> ToLowerCase(tag),
                code |-> Trim(SubSeq(text, code, close - 1)), close |-> close]
       ELSE [found |-> FALSE]

\* firstFencedBlock(markdown, language): the code of the leftmost match of
\* FENCE + language + "\s*\n([\s\S]*?)\n?FENCE" (case ignored), or Null
FirstFencedBlock(text, language, lineStart) ==
    LET starts == {i \in 1..Len(text) :
                     /\ FenceAt(text, i, lineStart).found
                     /\ FenceAt(text, i, lineStart).tag = <<language>>}
    IN IF starts = {} THEN Null
       ELSE FenceAt(text, CHOOSE i \in starts : \A j \in starts : i <= j, lineStart).code

\* allFencedBlocks(markdown): the matches from left to right, each search
\* starting behind the match before it
RECURSIVE AllFencedBlocks(_, _, _)
AllFencedBlocks(text, from, lineStart) ==
    LET starts == {i \in from..Len(text) : FenceAt(text, i, lineStart).found}
    IN IF starts = {} THEN <<>>
       ELSE LET m == FenceAt(text, CHOOSE i \in starts : \A j \in starts : i <= j,
                             lineStart)
            IN <<[language |-> IF m.tag = <<>> THEN <<"text">> ELSE m.tag,
                  code |-> m.code]>> \o AllFencedBlocks(text, m.close + 1, lineStart)

\* line.match(/^###\s+(.*)\s*$/): the captured text, or Null
H3Match(line) ==
    IF Len(line) >= 2 /\ line[1] = "###" /\ line[2] \in WhiteSpace
    THEN TrimStart(Tail(line)) ELSE Null

\* splitByH3(markdown)[key]: the trimmed lines below the last heading with
\* that key; Null if no heading has it. Nothing is collected below a heading
\* with an empty key.
RECURSIVE SplitByH3Loop(_, _, _, _, _)
SplitByH3Loop(lines, key, currentKey, currentBody, value) ==
    LET pushed == IF currentKey # <<>> /\ currentKey = key
                  THEN TrimText(currentBody) ELSE value
    IN IF lines = <<>> THEN pushed
       ELSE IF H3Match(Head(lines)) # Null
       THEN SplitByH3Loop(Tail(lines), key, ToLowerCase(Trim(H3Match(Head(lines)))),
                          <<>>, pushed)
       ELSE SplitByH3Loop(Tail(lines), key, currentKey,
                          IF currentKey # <<>> THEN Append(currentBody, Head(lines))
                          ELSE currentBody, value)
SplitByH3(lines, key) == SplitByH3Loop(lines, key, <<>>, <<>>, Null)

\* the text behind the key that opens line i, where the \s* of the pattern
\* runs over line ends: the rest of the line or, if that is blank, the next
\* line that is not blank (<<>> if there is none)
AfterKey(lines, i) ==
    LET rest == Trim(Tail(TrimStart(lines[i])))
        below == {j \in (i + 1)..Len(lines) : ~BlankLine(lines[j])}
    IN IF rest # <<>> THEN rest
       ELSE IF below = {} THEN <<>>
       ELSE Trim(lines[CHOOSE j \in below : \A k \in below : j <= k])

\* the lines that open with the key after optional white space
KeyLines(lines, key) ==
    {i \in 1..Len(lines) : TrimStart(lines[i]) # <<>> /\ Head(TrimStart(lines[i])) = key}

\* "a, b".split(",").map(trim).filter(Boolean); an entry is a tag if it is
\* one symbol, and no tag ("?") if it is several
RECURSIVE SplitEntries(_, _)
SplitEntries(inner, entry) ==
    LET token == IF Len(Trim(entry)) = 1 THEN <<Trim(entry)[1]>>
                 ELSE IF Trim(entry) = <<>> THEN <<>> ELSE <<"?">>
    IN IF inner = <<>> THEN token
       ELSE IF Head(inner) = "," THEN token \o SplitEntries(Tail(inner), <<>>)
       ELSE SplitEntries(Tail(inner), Append(entry, Head(inner)))

\* the keys of the yaml block: a line that opens with one of them at column
\* 0 matches /^\S+\s*:/
TopLevelKeys == {"id:", "scope:", "title:"}

\* the loop over the lines below "scope:": the "- item" lines up to the next
\* top-level key
RECURSIVE ScopeItems(_)
ScopeItems(lines) ==
    IF lines = <<>> THEN <<>>
    ELSE LET line == Head(lines)
             item == IF TrimStart(line) # <<>> /\ Head(TrimStart(line)) = "-"
                     THEN Trim(Tail(TrimStart(line))) ELSE <<>>
         IN IF line # <<>> /\ Head(line) \in TopLevelKeys THEN <<>>
            ELSE (IF item = <<>> THEN <<>>
                  ELSE IF Len(item) = 1 THEN item ELSE <<"?">>)
                     \o ScopeItems(Tail(lines))

\* parseRuleYaml(yamlText, ctx): {id, scope}; scope is Null for the error
\* thrown on an invalid token
ParseRuleYaml(yamlText) ==
    LET lines == SplitLines(yamlText, <<>>)
        ids == {i \in KeyLines(lines, "id:") : AfterKey(lines, i) # <<>>}
        id == IF ids = {} THEN <<>>
              ELSE AfterKey(lines, CHOOSE i \in ids : \A j \in ids : i <= j)
        Inline(i) == LET after == AfterKey(lines, i)
                     IN Len(after) >= 2 /\ Head(after) = "["
                        /\ after[Len(after)] = "]"
        inlines == {i \in KeyLines(lines, "scope:") : Inline(i)}
        blocks == {i \in KeyLines(lines, "scope:") : Trim(lines[i]) = <<"scope:">>}
    IN IF inlines # {}
       THEN LET after == AfterKey(lines, CHOOSE i \in inlines : \A j \in inlines : i <= j)
            IN [id |-> id,
                scope |-> ToRuleScopeArray(
                              SplitEntries(SubSeq(after, 2, Len(after) - 1), <<>>))]
       ELSE IF blocks # {}
       THEN LET startIndex == CHOOSE i \in blocks : \A j \in blocks : i <= j
            IN [id |-> id,
                scope |-> ToRuleScopeArray(
                              ScopeItems(SubSeq(lines, startIndex + 1, Len(lines))))]
       ELSE [id |-> id, scope |-> <<>>]

\* sections[key] as the lines of toBullets, Null for undefined
SectionLines(body, key) == SplitByH3(body, <<key>>)

\* the sections of a rule block: sections[key] for the don'ts and for the
\* snippets, the latter as one text
DontsLines(donts, other) == IF donts # Null THEN donts ELSE other
SnippetsMarkdown(snippets) == IF snippets = Null THEN <<>> ELSE Join(snippets, <<NewLine>>)

\* parseOneRule(block) from the parsed yaml on: the checks of id and scope,
\* then the rule; the compiled module leaves the snippets in document order
RuleOfYaml(block, yaml, module) ==
    IF yaml.scope = Null THEN Failure(<<"Rule: scope: invalid scope", block.title>>)
    ELSE IF yaml.id = <<>>
    THEN Failure(<<"Rule yaml block is missing 'id'.", block.title>>)
    ELSE IF yaml.scope = <<>>
    THEN Failure(<<"Rule yaml block is missing 'scope'.", block.title>>)
    ELSE [ok |-> TRUE,
          rule |-> [id |-> yaml.id, title |-> block.title, scope |-> yaml.scope,
                    must_haves |-> ToBullets(SectionLines(block.body, "must haves")),
                    donts |-> ToBullets(DontsLines(SectionLines(block.body, "don'ts"),
                                                   SectionLines(block.body, "donts"))),
                    acceptance_checks |->
                        ToBullets(SectionLines(block.body, "acceptance checks")),
                    snippets |->
                        IF module = "compiled"
                        THEN AllFencedBlocks(
                                 SnippetsMarkdown(SectionLines(block.body, "snippets")),
                                 1, TRUE)
                        ELSE SortSnippets(AllFencedBlocks(
                                 SnippetsMarkdown(SectionLines(block.body, "snippets")),
                                 1, FALSE))]]

\* parseOneRule(block) from the yaml fence on
RuleOfFence(block, yamlFence) ==
    IF yamlFence = Null
    THEN Failure(<<"Rule is missing a yaml fenced block with 'id' and 'scope'.",
                   block.title>>)
    ELSE RuleOfYaml(block, ParseRuleYaml(yamlFence), "typescript")

\* parseOneRule(block)
ParseOneRule(block) ==
    RuleOfFence(block, FirstFencedBlock(Join(block.body, <<NewLine>>), "yaml", FALSE))

\* parseRuleYaml(yamlText) of the compiled module: the id and the entries of
\* the inline scope list as they are written
ParseRuleYamlJs(yamlText) ==
    LET lines == SplitLines(yamlText, <<>>)
        ids == {i \in KeyLines(lines, "id:") : AfterKey(lines, i) # <<>>}
        Inline(i) == LET after == AfterKey(lines, i)
                     IN Len(after) >= 2 /\ Head(after) = "["
                        /\ after[Len(after)] = "]"
        inlines == {i \in KeyLines(lines, "scope:") : Inline(i)}
    IN [id |-> IF ids = {} THEN <<>>
               ELSE AfterKey(lines, CHOOSE i \in ids : \A j \in ids : i <= j),
        scope |-> IF inlines = {} THEN <<>>
                  ELSE LET after == AfterKey(lines, CHOOSE i \in inlines :
                                                       \A j \in inlines : i <= j)
                       IN SplitEntries(SubSeq(after, 2, Len(after) - 1), <<>>)]

\* parseOneRule(block) of the compiled module from the yaml fence on
RuleOfFenceJs(block, yamlFence) ==
    IF yamlFence = Null
    THEN Failure(<<"Rule is missing a yaml fenced block with id + scope.", block.title>>)
    ELSE RuleOfYaml(block, ParseRuleYamlJs(yamlFence), "compiled")

\* parseOneRule(block) of the compiled module
ParseOneRuleJs(block) ==
    RuleOfFenceJs(block, FirstFencedBlock(Join(block.body, <<NewLine>>), "yaml", TRUE))

\* splitByH2Rule(markdown): push() keeps a heading's block only if its
\* trimmed title is not empty, and the lines below a heading with an empty
\* title are not collected at all
TitledBlock(block) == Trim(block.title) # <<>>
SplitByH2Rule(blocks) ==
    LET trimmed == [i \in 1..Len(blocks) |->
                       [blocks[i] EXCEPT !.title = Trim(blocks[i].title)]]
    IN SelectSeq(trimmed, TitledBlock)

\* splitByH2Rule(markdown) of the compiled module, /^##\s+Rule:\s+(.*)$/i: a
\* heading "## Rule:" with nothing behind the colon (the blank title) is no
\* heading, it is a line of the block before it, and so are the lines
\* below it
RECURSIVE SplitByH2RuleJs(_, _)
SplitByH2RuleJs(blocks, result) ==
    IF blocks = <<>> THEN result
    ELSE LET block == Head(blocks)
             n == Len(result)
         IN IF TitledBlock(block)
            THEN SplitByH2RuleJs(Tail(blocks),
                                 Append(result, [block EXCEPT !.title = Trim(block.title)]))
            ELSE IF n = 0 THEN SplitByH2RuleJs(Tail(blocks), result)
            ELSE SplitByH2RuleJs(Tail(blocks),
                     [result EXCEPT ![n].body =
                         result[n].body \o <<<<"#", "#", Space, "Rule:">>>> \o block.body])

\* ruleBlocks.map(parseOneRule): the rules in block order, or the first
\* error; with the parseOneRule of the TypeScript source or of the compiled
\* module
RECURSIVE ParseRules(_, _, _)
ParseRulesFrom(one, blocks, rules, module) ==
    IF ~one.ok THEN one ELSE ParseRules(Tail(blocks), Append(rules, one.rule), module)
ParseRules(blocks, rules, module) ==
    IF blocks = <<>> THEN [ok |-> TRUE, rules |-> rules]
    ELSE ParseRulesFrom(IF module = "compiled" THEN ParseOneRuleJs(Head(blocks))
                        ELSE ParseOneRule(Head(blocks)),
                        blocks, rules, module)

\* typeof data.cache_ttl_seconds === "number" ? data.cache_ttl_seconds : undefined
NoNumber == [type |-> "undefined"]
NumberOrUndefined(v) == IF v.type = "number" THEN v ELSE NoNumber

\* parseGlobalRulesMarkdown(fileText, expectedStack), parsed being the rules
\* of the blocks or the first error among them
RulesDocument(doc, expectedStack, parsed) ==
    LET data == doc.data
        policy == ParseApplyPolicy(data.apply_policy)
        metaId == Trim(StringOrEmpty(data.id))
        metaStack == IF data.stack # "" THEN data.stack ELSE expectedStack
        rules == SortById(parsed.rules)
    IN IF ~policy.ok THEN policy
       ELSE IF metaId = <<>> THEN Failure(<<"Global rules file missing frontmatter 'id'.">>)
       ELSE IF metaStack # expectedStack
       THEN Failure(<<"Global rules frontmatter stack does not match requested stack",
                      metaStack, expectedStack>>)
       ELSE IF data.status # "" /\ data.status \notin AllowedStatus
       THEN Failure(<<"Global rules frontmatter has invalid status", data.status>>)
       ELSE IF ~parsed.ok THEN parsed
       ELSE IF \E i, j \in 1..Len(rules) : i # j /\ rules[i].id = rules[j].id
       THEN Failure(<<"Duplicate global rule id found.">>)
       ELSE [ok |-> TRUE,
             meta |-> [id |-> metaId, stack |-> metaStack, rule_set |-> data.rule_set,
                       status |-> data.status, summary |-> data.summary,
                       cache_ttl_seconds |-> NumberOrUndefined(data.cache_ttl_seconds),
                       apply_policy |-> policy.policy],
             rules |-> rules]

\* parseGlobalRulesMarkdown(fileText, expectedStack)
ParseGlobalRulesMarkdown(doc, expectedStack) ==
    RulesDocument(doc, expectedStack,
                  ParseRules(SplitByH2Rule(doc.blocks), <<>>, "typescript"))

\* parseGlobalRulesMarkdown(fileText, expectedStack) of the compiled module:
\* the frontmatter as it is, the rules sorted by id
RulesDocumentJs(doc, expectedStack, parsed) ==
    LET data == doc.data
        metaId == Trim(StringOrEmpty(data.id))
        metaStack == IF data.stack # "" THEN data.stack ELSE expectedStack
    IN IF metaId = <<>> THEN Failure(<<"Global rules file missing frontmatter 'id'.">>)
       ELSE IF metaStack # expectedStack
       THEN Failure(<<"Global rules frontmatter stack does not match requested stack",
                      metaStack, expectedStack>>)
       ELSE IF ~parsed.ok THEN parsed
       ELSE [ok |-> TRUE,
             meta |-> [id |-> metaId, stack |-> metaStack, rule_set |-> data.rule_set,
                       status |-> data.status, summary |-> data.summary,
                       cache_ttl_seconds |-> NumberOrUndefined(data.cache_ttl_seconds),
                       apply_policy |-> data.apply_policy],
             rules |-> SortById(parsed.rules)]

ParseGlobalRulesMarkdownJs(doc, expectedStack) ==
    RulesDocumentJs(doc, expectedStack,
                    ParseRules(SplitByH2RuleJs(doc.blocks, <<>>), <<>>, "compiled"))

----------------------------------------------------------------------------
(* Query operations *)

StackMismatch(held, stack) == Failure(<<"Stack mismatch.", held.stack, stack>>)

\* p.tags.some((t) => wanted.has(t.toLowerCase())), wanted the lower-cased
\* requested tags
HasWantedTagMutant(p, tags) ==
    \A w \in Range(tags) : \E t \in Range(p.tags) : ToLowerCase(t) = ToLowerCase(w)
HasWantedTag(p, tags) ==
    LET wanted == {ToLowerCase(tags[i]) : i \in 1..Len(tags)}
    IN \E i \in 1..Len(p.tags) : ToLowerCase(p.tags[i]) \in wanted

\* the query filter: q = query.toLowerCase() searched in id, summary, aliases
MatchesQuery(p, query) ==
    LET q == ToLowerCase(query)
    IN \/ Includes(ToLowerCase(p.id), q)
       \/ Includes(ToLowerCase(p.summary), q)
       \/ \E i \in 1..Len(p.aliases) : Includes(ToLowerCase(p.aliases[i]), q)

\* listPatterns(index, {stack, tags, query})
ListPatterns(held, args) ==
    IF args.stack # held.stack THEN StackMismatch(held, args.stack)
    ELSE
      LET KeepTag(p) == HasWantedTag(p, args.tags)
          KeepQuery(p) == MatchesQuery(p, args.query)
          byTags == IF args.tags # Undefined /\ Len(args.tags) > 0
                    THEN SelectSeq(held.all, KeepTag) ELSE held.all
          byQuery == IF args.query # Undefined /\ args.query # <<>>
                        /\ Trim(args.query) # <<>>
                     THEN SelectSeq(byTags, KeepQuery) ELSE byTags
          results == SortById(byQuery)
      IN [ok |-> TRUE,
          contract_version |-> "1.0",
          stack |-> args.stack,
          catalog_revision |-> held.cache.catalog_revision,
          cache_ttl_seconds |-> held.cache.cache_ttl_seconds,
          count |-> Len(results),
          patterns |-> results]

\* The cache metadata spread into a response: ...index.cache
ResponseCacheMutant(held) ==
    [catalog_revision |-> CatalogRevision(held.stack, baseline, catalog,
                               SortStrings(CHOOSE f \in Enumerations : TRUE), components),
     cache_ttl_seconds |-> held.cache.cache_ttl_seconds]
ResponseCache(held) == held.cache

\* index.idToPath.get(id)
PathOfIdMutant(held, id) ==
    IF held.idToPath # <<>> THEN held.idToPath[CHOOSE k \in DOMAIN held.idToPath : TRUE]
    ELSE Undefined
PathOfId(held, id) ==
    IF id \in DOMAIN held.idToPath THEN held.idToPath[id] ELSE Undefined

\* String(data.id ?? "").trim(): the id the file declares
PatternIdMutant(data) == <<"a">>
PatternId(data) == Trim(StringOrEmpty(data.id))

\* getPattern(index, patternRepoPath, {stack, id}); the file is read from the
\* disk as it is now. Paths are kept relative to the repository root.
GetPattern(held, args) ==
    IF args.stack # held.stack THEN StackMismatch(held, args.stack)
    ELSE
      LET id == args.id
          stack == args.stack
          filePath == PathOfId(held, id)
      IN IF filePath = Undefined
         THEN Failure(<<"PATTERN_NOT_FOUND:", id, stack>>)
         ELSE IF filePath \notin DOMAIN components
         THEN Failure(<<"ENOENT: no such file or directory", filePath>>)
         ELSE
           LET raw == components[filePath]
               data == raw.data
               patternId == PatternId(data)
               status == data.status
               summary == Trim(StringOrEmpty(data.summary))
               tags == StringArray(data.tags)
               aliases == StringArray(data.aliases)
               declaredStack == data.stack
           IN IF patternId = <<>>
              THEN Failure(<<"Pattern missing 'id' in frontmatter: ", filePath>>)
              ELSE IF patternId # id
              THEN Failure(<<"Pattern id mismatch.", id, patternId, filePath>>)
              ELSE IF declaredStack # "" /\ declaredStack # stack
              THEN Failure(<<"Pattern declares stack but is served under stack", id,
                             declaredStack, stack, filePath>>)
              ELSE IF summary = <<>>
              THEN Failure(<<"Pattern missing 'summary' in frontmatter: ", filePath>>)
              ELSE [ok |-> TRUE,
                    contract_version |-> "1.0",
                    catalog_revision |-> ResponseCache(held).catalog_revision,
                    cache_ttl_seconds |-> ResponseCache(held).cache_ttl_seconds,
                    pattern |-> [id |-> id, stack |-> stack, status |-> status,
                                 summary |-> summary, tags |-> tags,
                                 aliases |-> aliases,
                                 sections |-> ExtractSections(raw.body),
                                 source |-> [relative_path |-> filePath]]]

\* The files getPattern reads: the pattern's file, once the id is found.
GetPatternReadsMutant(held, args) ==
    IF PathOfId(held, args.id) = Undefined THEN <<>> ELSE <<PathOfId(held, args.id)>>
GetPatternReads(held, args) ==
    IF args.stack # held.stack \/ PathOfId(held, args.id) = Undefined THEN <<>>
    ELSE <<PathOfId(held, args.id)>>

\* One get_pattern request on the index in hand. After an edit the request
\* before the edit is repeated, and before keeps what it returned.
Get(args) ==
    /\ resp.op \in {"buildPatternIndex", "edit"}
    /\ resp.op = "edit" => args = resp.before.args
    /\ patternIndex # NoIndex
    /\ resp' = [op |-> "getPattern", args |-> args,
                result |-> GetPattern(patternIndex, args),
                before |-> IF resp.op = "edit" THEN resp.before.result ELSE NoResult]
    /\ reads' = GetPatternReads(patternIndex, args)
    /\ UNCHANGED <<httpVars, cacheVars, diskVars, patternIndex>>

\* One list_patterns request on the index in hand.
List(args) ==
    /\ resp.op = "buildPatternIndex"
    /\ patternIndex # NoIndex
    /\ resp' = [op |-> "listPatterns", args |-> args,
                result |-> ListPatterns(patternIndex, args)]
    /\ reads' = <<>>
    /\ UNCHANGED <<httpVars, cacheVars, diskVars, patternIndex>>

\* normalizeScope(scope): absent -> null; a list as it is; a tag -> [tag]
NoScope == [kind |-> "undefined"]
NormalizeScope(scope) ==
    IF scope = NoScope THEN Null
    ELSE IF scope.kind = "array" THEN scope.tags
    ELSE <<scope.tag>>

\* r.scope.some((s) => scopeFilter.includes(s))
InScopeMutant(r, scopeFilter) ==
    \A i \in 1..Len(r.scope) : r.scope[i] \in Range(scopeFilter)
InScope(r, scopeFilter) ==
    \E i \in 1..Len(r.scope) : r.scope[i] \in Range(scopeFilter)

\* parsed.meta.cache_ttl_seconds ?? index.cache.cache_ttl_seconds
EffectiveTtlMutant(meta, held) ==
    IF meta.cache_ttl_seconds.type = "number" /\ meta.cache_ttl_seconds.value # 0
    THEN meta.cache_ttl_seconds.value
    ELSE held.cache.cache_ttl_seconds
EffectiveTtl(meta, held) ==
    IF meta.cache_ttl_seconds # NoNumber THEN meta.cache_ttl_seconds.value
    ELSE held.cache.cache_ttl_seconds

\* getGlobalRules(index, patternRepoPath, {stack, scope}), the compiled
\* module
RulesResponse(held, args, parsed) ==
    LET scopeFilter == NormalizeScope(args.scope)
        Wanted(r) == InScope(r, scopeFilter)
    IN IF ~parsed.ok THEN parsed
       ELSE [ok |-> TRUE,
             contract_version |-> "1.0",
             stack |-> args.stack,
             catalog_revision |-> held.cache.catalog_revision,
             cache_ttl_seconds |-> EffectiveTtl(parsed.meta, held),
             meta |-> parsed.meta,
             rules |-> [scope_filter |-> scopeFilter,
                        items |-> IF scopeFilter # Null
                                  THEN SelectSeq(parsed.rules, Wanted)
                                  ELSE parsed.rules]]
GetGlobalRules(held, args) ==
    IF args.stack # held.stack THEN StackMismatch(held, args.stack)
    ELSE IF baseline = Missing
    THEN Failure(<<"ENOENT: no such file or directory", "global_rules.md">>)
    ELSE RulesResponse(held, args, ParseGlobalRulesMarkdown(baseline, args.stack))

\* the object {} : no key
EmptyObject == <<>>

\* getGlobalRules(index, patternRepoPath, {stack}), the TypeScript source the
\* MCP server imports: the frontmatter only, args.scope is not looked at
GetGlobalRulesTs(held, args) ==
    IF args.stack # held.stack THEN StackMismatch(held, args.stack)
    ELSE IF baseline = Missing
    THEN Failure(<<"ENOENT: no such file or directory", "global_rules.md">>)
    ELSE
      LET data == baseline.data
          metaStack == IF data.stack # "" THEN data.stack ELSE args.stack
          meta == [id |-> Trim(StringOrEmpty(data.id)),
                   stack |-> metaStack,
                   rule_set |-> data.rule_set,
                   status |-> data.status,
                   summary |-> data.summary,
                   cache_ttl_seconds |-> NumberOrUndefined(data.cache_ttl_seconds),
                   apply_policy |-> IF data.apply_policy.declared
                                    THEN [instruction |-> data.apply_policy.instruction,
                                          scopes_in_order |->
                                              data.apply_policy.scopes_in_order]
                                    ELSE Null]
      IN IF metaStack # args.stack
         THEN Failure(<<"Global rules meta.stack does not match requested stack",
                        metaStack, args.stack>>)
         ELSE [ok |-> TRUE,
               contract_version |-> "1.0",
               stack |-> args.stack,
               catalog_revision |-> held.cache.catalog_revision,
               cache_ttl_seconds |-> EffectiveTtl(meta, held),
               meta |-> meta,
               rules |-> EmptyObject]

\* One get_global_rules request on the index in hand, served by either
\* module.
Rules(args) ==
    /\ resp.op = "buildPatternIndex"
    /\ patternIndex # NoIndex
    /\ \E module \in Modules :
         resp' = [op |-> "getGlobalRules", args |-> args, module |-> module,
                  result |-> IF module = "compiled"
                             THEN GetGlobalRules(patternIndex, args)
                             ELSE GetGlobalRulesTs(patternIndex, args)]
    /\ reads' = IF args.stack # patternIndex.stack THEN <<>> ELSE <<"global_rules.md">>
    /\ UNCHANGED <<httpVars, cacheVars, diskVars, patternIndex>>

\* parseGlobalRulesMarkdown(fileText, expectedStack) on the baseline document,
\* by the TypeScript source or by the compiled module
Parse(module, expectedStack) ==
    /\ resp.op = "none"
    /\ baseline # Missing
    /\ resp' = [op |-> "parseGlobalRulesMarkdown", module |-> module,
                result |-> IF module = "compiled"
                           THEN ParseGlobalRulesMarkdownJs(baseline, expectedStack)
                           ELSE ParseGlobalRulesMarkdown(baseline, expectedStack)]
    /\ UNCHANGED <<httpVars, cacheVars, diskVars, patternIndex, reads>>

\* An author replaces, adds or deletes a component file after the index
\* was built and a first request was served from it.
Edit(path, file) ==
    /\ patternIndex # NoIndex
    /\ resp.op = "getPattern" /\ resp.before = NoResult
    /\ IF file = Missing
       THEN /\ path \in DOMAIN components
            /\ components' = [q \in DOMAIN components \ {path} |-> components[q]]
       ELSE /\ IF path \in DOMAIN components THEN components[path] # file ELSE TRUE
            /\ components' = [q \in DOMAIN components \cup {path} |->
                                 IF q = path THEN file ELSE components[q]]
    /\ resp' = [op |-> "edit",
                before |-> [args |-> resp.args, result |-> resp.result]]
    /\ reads' = <<>>
    /\ UNCHANGED <<httpVars, cacheVars, baseline, catalog, patternIndex>>

----------------------------------------------------------------------------
(* The indexer on its own: every content of the components directory *)

MaxFiles == 2      \* component files on disk

PathOf(i) == CASE i = 1 -> <<"b">> [] i = 2 -> <<"a">> [] i = 3 -> <<"A">>
               [] OTHER -> [j \in 1..i |-> "a"]
Paths == {PathOf(i) : i \in 1..MaxFiles}

\* Values of the id key of a component's frontmatter
IdValues == {Undefined, <<>>, <<" ">>, <<"a">>, <<"B">>, <<" ", "a">>}

\* A rule block as an author writes it: the yaml fence with the id and the
\* scope as an inline list
Fenced(tag, lines) == <<<<FenceMark>> \o tag>> \o lines \o <<<<FenceMark>>>>
InlineScope(scope) ==
    <<"scope:", Space, "[">>
        \o Join([i \in 1..Len(scope) |-> <<scope[i]>>], <<",", Space>>) \o <<"]">>
RuleBlock(title, id, scope) ==
    [title |-> title,
     body |-> Fenced(<<"yaml">>, <<<<"id:", Space>> \o id, InlineScope(scope)>>)]
SomeBaseline ==
    [data |-> [id |-> <<"a">>, stack |-> "", status |-> "", rule_set |-> Null,
               summary |-> Null, cache_ttl_seconds |-> NoNumber, apply_policy |-> NoPolicy],
     blocks |-> <<RuleBlock(<<"B">>, <<"b">>, <<"page">>)>>]

SomeTags == <<<<"b">>, <<"A">>, <<"b">>>>
SomeExcerpt == [use_when |-> <<"u">>, do_not_use_when |-> <<>>]
SomeCatalog == [json |-> TRUE, selection |-> (<<"a">> :> SomeExcerpt)]

SomeFile ==
    [data |-> [id |-> <<"a">>, stack |-> "", status |-> "beta", summary |-> <<"a">>,
               tags |-> SomeTags, aliases |-> Undefined],
     body |-> <<>>]

IndexedFiles ==
    [data : [id : IdValues,
             stack : {"", "web/react"},
             status : {"beta", "betaa"},
             summary : {<<>>, <<"a">>},
             tags : {SomeTags},
             aliases : {Undefined}],
     body : {<<>>}]

InitIndex ==
    /\ NoHttp /\ NoCache
    /\ baseline \in {Missing, SomeBaseline}
    /\ catalog \in {Missing, [json |-> FALSE, selection |-> <<>>], SomeCatalog}
    /\ \E present \in SUBSET Paths :
          components \in [present -> IF baseline = SomeBaseline /\ catalog = SomeCatalog
                                     THEN IndexedFiles ELSE {SomeFile}]
    /\ NoRequest

NextIndex == \E module \in Modules, stack \in Stacks : Build(module, stack, MaxTtl)

SpecIndex == InitIndex /\ [][NextIndex]_vars

----------------------------------------------------------------------------
(* list_patterns: every filter on the indexes of a small catalog *)

MaxQueryLen == 2   \* length of the query argument
MaxTagArgs == 2    \* number of requested tags

QueryChars == {"a", "B", Space}
StringsUpTo(chars, n) == UNION {[1..k -> chars] : k \in 0..n}
TagValues == {<<"A">>, <<"b">>}
TagLists == UNION {[1..k -> TagValues] : k \in 0..MaxTagArgs}

ListPatternsArgs ==
    [stack : {"web/react"},
     tags : {Undefined} \cup TagLists,
     query : {Undefined} \cup StringsUpTo(QueryChars, MaxQueryLen)]

ListedFiles ==
    [data : [id : {<<"a">>, <<"A", "b">>},
             stack : {""},
             status : {"beta"},
             summary : {<<"b">>, <<"a", " ", "B">>},
             tags : {Undefined, <<<<"a">>>>, <<<<"B">>, <<"A">>>>},
             aliases : {Undefined, <<<<"B", "a">>>>}],
     body : {<<>>}]

InitList ==
    /\ NoHttp /\ NoCache
    /\ baseline = SomeBaseline
    /\ catalog = SomeCatalog
    /\ \E present \in SUBSET Paths : components \in [present -> ListedFiles]
    /\ NoRequest

NextList ==
    \/ \E module \in Modules : Build(module, "web/react", MaxTtl)
    \/ \E args \in ListPatternsArgs : List(args)

SpecList == InitList /\ [][NextList]_vars

----------------------------------------------------------------------------
(* The three query operations on one index, with files edited after the
   build *)

IdArgs == {<<"a">>, <<"B">>, <<"b">>, <<" ", "a">>}
GetPatternArgs == [stack : Stacks, id : IdArgs]

BodyOne == <<<<"#", "#", " ", "Must Haves">>, <<"-", " ", "a">>, <<" ", " ", "-", " ", "b">>,
             <<"#", "#", " ", "Golden Pattern">>, <<"a">>>>
BodyTwo == <<<<"#", "#", " ", "must haves">>, <<"-", " ", "b">>, <<"a">>, <<"*", " ", "a">>>>

ToolFiles ==
    [data : [id : {<<>>, <<"a">>, <<"B">>},
             stack : {"", "android/compose"},
             status : {"beta"},
             summary : {<<>>, <<"a">>},
             tags : {SomeTags},
             aliases : {Undefined}],
     body : {BodyOne, BodyTwo}]

ScopeArgs ==
    {NoScope, [kind |-> "tag", tag |-> "page"], [kind |-> "array", tags |-> <<>>],
     [kind |-> "array", tags |-> <<"page">>],
     [kind |-> "array", tags |-> <<"style", "page">>],
     [kind |-> "array", tags |-> <<"utility", "component">>]}
GetGlobalRulesArgs == [stack : Stacks, scope : ScopeArgs]
SomeListPatternsArgs ==
    [stack : Stacks, tags : {Undefined, <<<<"A">>>>}, query : {Undefined, <<"a">>}]

InitTools ==
    /\ NoHttp /\ NoCache
    /\ baseline = SomeBaseline
    /\ catalog = SomeCatalog
    /\ \E present \in SUBSET Paths : components \in [present -> ToolFiles]
    /\ NoRequest

NextTools ==
    \/ \E module \in Modules : Build(module, "web/react", MaxTtl)
    \/ \E args \in GetPatternArgs : Get(args)
    \/ \E args \in SomeListPatternsArgs : List(args)
    \/ \E args \in GetGlobalRulesArgs : Rules(args)
    \/ \E path \in Paths, file \in ToolFiles \cup {Missing} : Edit(path, file)

SpecTools == InitTools /\ [][NextTools]_vars

----------------------------------------------------------------------------
(* get_global_rules on every baseline document *)

MaxRules == 2      \* rule blocks in the baseline document
MaxDocTtl == 1     \* largest cache_ttl_seconds a document declares

\* scope lists of a rule's yaml block: valid, not normalised, empty, invalid
RawScopes == {<<"page">>, <<"utility", "component">>, <<"Page", "style">>, <<>>, <<"x">>}
RuleBlocks ==
    {RuleBlock(id, id, scope) : id \in {<<"a">>, <<"B">>}, scope \in RawScopes}
        \cup {[title |-> <<"a">>, body |-> <<>>], [title |-> <<>>, body |-> <<>>]}
BlockLists == UNION {[1..n -> RuleBlocks] : n \in 0..MaxRules}

\* what the frontmatter declares as cache_ttl_seconds: nothing, a number, or
\* a quoted number (a string)
DeclaredTtls == {NoNumber} \cup [type : {"number", "string"}, value : 0..MaxDocTtl]

SomePolicy == [declared |-> TRUE, instruction |-> <<"a">>,
               scopes_in_order |-> <<"page", "component">>]

RuleDocs ==
    [data : [id : {<<"a">>, <<>>},
             stack : {"", "android/compose"},
             status : {""},
             rule_set : {Null},
             summary : {Null},
             cache_ttl_seconds : DeclaredTtls,
             apply_policy : {SomePolicy}],
     blocks : BlockLists]

InitRules ==
    /\ NoHttp /\ NoCache
    /\ baseline \in RuleDocs
    /\ catalog = SomeCatalog
    /\ components = <<>>
    /\ NoRequest

NextRules ==
    \/ \E module \in Modules : Build(module, "web/react", MaxTtl)
    \/ \E module \in Modules : Parse(module, "web/react")
    \/ \E args \in GetGlobalRulesArgs : Rules(args)

SpecRules == InitRules /\ [][NextRules]_vars

----------------------------------------------------------------------------
(* The revision on texts given character by character *)

MaxTextLen == 3    \* characters of a component file's text

TextChars == {NewLine, "component_text:"}
HashTexts == StringsUpTo(TextChars, MaxTextLen)
BaselineTexts == {<<>>, <<"a">>}
CatalogTexts == {<<"{", "}">>}
HashDisks == UNION {[present -> HashTexts] : present \in SUBSET Paths}

InitHash ==
    /\ NoHttp /\ NoCache
    /\ baseline = <<>>
    /\ catalog \in CatalogTexts
    /\ components \in HashDisks
    /\ NoRequest

NextHash ==
    \/ \E stack \in Stacks : Hash(stack)
    \/ \E b \in BaselineTexts, c \in CatalogTexts, texts \in HashDisks : Rewrite(b, c, texts)

SpecHash == InitHash /\ [][NextHash]_vars

----------------------------------------------------------------------------
(* One rule block on every yaml fence of a few lines *)

MaxYamlLines == 3    \* lines between the marks of the yaml fence

\* parseOneRule(block) on the first block of the baseline document
ParseRule ==
    /\ resp.op = "none"
    /\ resp' = [op |-> "parseOneRule", result |-> ParseOneRule(baseline.blocks[1])]
    /\ UNCHANGED <<httpVars, cacheVars, diskVars, patternIndex, reads>>

InitYaml ==
    LET YamlLines ==
            {<<"id:", Space, "a">>, <<"id:">>, <<"scope:">>, <<"title:", Space, "a">>,
             <<Space, Space, "-", Space, "page">>, <<"-", Space, "component">>,
             <<"-", Space, "x">>}
                \cup {InlineScope(scope) :
                         scope \in {<<>>, <<"page">>, <<"Page", "style", "page">>, <<"x">>}}
        Fences == UNION {[1..n -> YamlLines] : n \in 0..MaxYamlLines}
    IN /\ NoHttp /\ NoCache
       /\ \E lines \in Fences :
             baseline = [data |-> SomeBaseline.data,
                         blocks |-> <<[title |-> <<"a">>,
                                      body |-> Fenced(<<"yaml">>, lines)]>>]
       /\ catalog = SomeCatalog
       /\ components = <<>>
       /\ NoRequest

SpecYaml == InitYaml /\ [][ParseRule]_vars

----------------------------------------------------------------------------
(* The bullet scan on every section of a few lines *)

MaxBulletLines == 4    \* lines of the section

\* toBulletArray(sectionMarkdown) of the pattern sections and
\* toBullets(sectionMarkdown) of the global rules on the same section
Bullets ==
    /\ resp.op = "none"
    /\ resp' = [op |-> "toBulletArray", sectionMarkdown |-> resp.sectionMarkdown,
                result |-> ToBulletArray(resp.sectionMarkdown),
                rule |-> ToBullets(resp.sectionMarkdown)]
    /\ UNCHANGED <<httpVars, cacheVars, diskVars, patternIndex, reads>>

InitBullets ==
    LET BulletLines ==
            {<<"-", Space, "a">>, <<"*", Space, "B">>, <<"1", ".", Space, "a">>,
             <<"-", Space>>, <<Space, Space, "-", Space, "a">>, <<Tab, "*", Space, "B">>,
             <<"a">>, <<>>}
    IN /\ NoHttp /\ NoCache /\ NoDisk
       /\ patternIndex = NoIndex /\ reads = <<>>
       /\ \E lines \in UNION {[1..n -> BulletLines] : n \in 0..MaxBulletLines} :
             resp = [op |-> "none", sectionMarkdown |-> lines]

SpecBullets == InitBullets /\ [][Bullets]_vars

----------------------------------------------------------------------------
(* extractSections on every markdown body of a few lines *)

MaxBodyLines == 4    \* lines of the markdown body

\* extractSections(markdownBody) of the TypeScript source or of the compiled
\* module
Sections(module) ==
    /\ resp.op = "none"
    /\ resp' = [op |-> "extractSections", module |-> module,
                markdownBody |-> resp.markdownBody,
                result |-> IF module = "compiled" THEN ExtractSectionsJs(resp.markdownBody)
                           ELSE ExtractSections(resp.markdownBody)]
    /\ UNCHANGED <<httpVars, cacheVars, diskVars, patternIndex, reads>>

InitSections ==
    LET BodyLines ==
            {<<"#", "#", Space, "Must Haves">>, <<"#", "#", Space, "Golden Pattern">>,
             <<"#", "#", Space, "golden pattern", ":">>, <<"#", "#", Space, "a">>,
             <<"-", Space, "a">>, <<"B">>, <<Space>>, <<>>,
             <<"#", "#", "#", Space, "a">>}
    IN /\ NoHttp /\ NoCache /\ NoDisk
       /\ patternIndex = NoIndex /\ reads = <<>>
       /\ \E lines \in UNION {[1..n -> BodyLines] : n \in 0..MaxBodyLines} :
             resp = [op |-> "none", markdownBody |-> lines]

NextSections == \E module \in Modules : Sections(module)

SpecSections == InitSections /\ [][NextSections]_vars

----------------------------------------------------------------------------
(* One rule block on every body of a few fenced blocks and lines *)

MaxSnippetItems == 3    \* fenced blocks and single lines below the yaml fence

InitSnippets ==
    LET Tags == {<<>>, <<"a">>, <<"B">>, <<"a", "+">>}
        Codes == {<<"a">>, <<Space, "B">>}
        Items == {Fenced(tag, <<code>>) : tag \in Tags, code \in Codes}
                    \cup {<<<<"###", Space, "Snippets">>>>,
                          <<<<"###", Space, "Must Haves">>>>,
                          <<<<"a">>>>, <<<<FenceMark>>>>}
        Bodies == UNION {[1..n -> Items] : n \in 0..MaxSnippetItems}
    IN /\ NoHttp /\ NoCache
       /\ \E items \in Bodies :
             baseline = [data |-> SomeBaseline.data,
                         blocks |-> <<[title |-> <<"a">>,
                                      body |-> Fenced(<<"yaml">>,
                                                      <<<<"id:", Space, "a">>,
                                                        InlineScope(<<"page">>)>>)
                                                   \o Join(items, <<>>)]>>]
       /\ catalog = SomeCatalog
       /\ components = <<>>
       /\ NoRequest

SpecSnippets == InitSnippets /\ [][ParseRule]_vars

----------------------------------------------------------------------------
(* One build taken read by read, with an author who edits a component file
   while the build runs *)

MaxEdits == 1    \* edits of component files during the build

NoAcc == [ok |-> TRUE, byId |-> <<>>, idToPath |-> <<>>, all |-> <<>>]

\* buildPatternIndex up to the loops over the component files: the two
\* required files are read, the glob has enumerated the paths (sorted by the
\* compiled module, as they come in src/repo/index.ts)
BeginBuild(module) ==
    /\ resp.op = "none"
    /\ \E found \in Enumerations :
         resp' = [op |-> "building", module |-> module, stack |-> "web/react",
                  componentPaths |-> IF module = "compiled" THEN SortStrings(found)
                                     ELSE found,
                  fileTextByPath |-> <<>>, parsed |-> 0, acc |-> NoAcc, edits |-> 0]
    /\ reads' = <<"global_rules.md", "patterns.json">>
    /\ UNCHANGED <<httpVars, cacheVars, diskVars, patternIndex>>

\* the build ends: with the index, or with the error
EndBuild(r) ==
    /\ patternIndex' = IF r.ok THEN r ELSE NoIndex
    /\ resp' = [op |-> "buildPatternIndex", module |-> resp.module,
                stack |-> resp.stack, ttl |-> MaxTtl, result |-> r,
                componentPaths |-> resp.componentPaths,
                fileTextByPath |-> resp.fileTextByPath]

\* await readTextFile(p) in the first loop: the text of the next component
\* file as it is on disk now, kept for the revision
ReadText ==
    /\ resp.op = "building"
    /\ Cardinality(DOMAIN resp.fileTextByPath) < Len(resp.componentPaths)
    /\ LET p == resp.componentPaths[Cardinality(DOMAIN resp.fileTextByPath) + 1]
       IN /\ reads' = Append(reads, p)
          /\ IF p \in DOMAIN components
             THEN /\ resp' = [resp EXCEPT !.fileTextByPath = (p :> components[p]) @@ @]
                  /\ UNCHANGED patternIndex
             ELSE EndBuild(Failure(<<"ENOENT: no such file or directory", p>>))
    /\ UNCHANGED <<httpVars, cacheVars, diskVars>>

\* the compiled module, all texts read: the revision and the summaries are
\* computed from the texts in fileTextByPath
IndexTexts ==
    /\ resp.op = "building"
    /\ resp.module = "compiled"
    /\ Cardinality(DOMAIN resp.fileTextByPath) = Len(resp.componentPaths)
    /\ LET built == IndexFiles(NoAcc, resp.componentPaths, resp.fileTextByPath,
                               resp.stack, catalog.selection)
       IN EndBuild(IF ~built.ok THEN built
                   ELSE [ok |-> TRUE,
                         stack |-> resp.stack,
                         cache |-> [catalog_revision |->
                                        CatalogRevision(resp.stack, baseline, catalog,
                                                        resp.componentPaths,
                                                        resp.fileTextByPath),
                                    cache_ttl_seconds |-> MaxTtl],
                         byId |-> built.byId,
                         idToPath |-> built.idToPath,
                         all |-> SortById(built.all)])
    /\ UNCHANGED <<httpVars, cacheVars, diskVars, reads>>

\* src/repo/index.ts, all texts read for the revision: const raw = await
\* readTextFile(filePath) in the second loop reads the next file again, as
\* it is on disk now, and parses it
ReadRaw ==
    /\ resp.op = "building"
    /\ resp.module = "typescript"
    /\ Cardinality(DOMAIN resp.fileTextByPath) = Len(resp.componentPaths)
    /\ resp.parsed < Len(resp.componentPaths)
    /\ LET filePath == resp.componentPaths[resp.parsed + 1]
       IN /\ reads' = Append(reads, filePath)
          /\ IF filePath \notin DOMAIN components
             THEN EndBuild(Failure(<<"ENOENT: no such file or directory", filePath>>))
             ELSE LET acc == IndexOneFileTs(resp.acc, filePath, components[filePath],
                                            resp.stack)
                  IN IF ~acc.ok THEN EndBuild(acc)
                     ELSE /\ resp' = [resp EXCEPT !.parsed = @ + 1, !.acc = acc]
                          /\ UNCHANGED patternIndex
    /\ UNCHANGED <<httpVars, cacheVars, diskVars>>

\* src/repo/index.ts, all files parsed: the index
IndexRaws ==
    /\ resp.op = "building"
    /\ resp.module = "typescript"
    /\ Cardinality(DOMAIN resp.fileTextByPath) = Len(resp.componentPaths)
    /\ resp.parsed = Len(resp.componentPaths)
    /\ EndBuild([ok |-> TRUE,
                 stack |-> resp.stack,
                 cache |-> [catalog_revision |->
                                CatalogRevisionTs(resp.stack, baseline, catalog,
                                                  resp.componentPaths,
                                                  resp.fileTextByPath),
                            cache_ttl_seconds |-> MaxTtl],
                 byId |-> resp.acc.byId,
                 idToPath |-> resp.acc.idToPath,
                 all |-> SortById(resp.acc.all)])
    /\ UNCHANGED <<httpVars, cacheVars, diskVars, reads>>

\* An author replaces or deletes a component file while the build runs.
EditDuringBuild(path, file) ==
    /\ resp.op = "building"
    /\ resp.edits < MaxEdits
    /\ path \in DOMAIN components
    /\ components[path] # file
    /\ components' = IF file = Missing
                     THEN [q \in DOMAIN components \ {path} |-> components[q]]
                     ELSE [components EXCEPT ![path] = file]
    /\ resp' = [resp EXCEPT !.edits = @ + 1]
    /\ UNCHANGED <<httpVars, cacheVars, baseline, catalog, patternIndex, reads>>

\* the component files of this specification: two ids, two summaries
StepFiles ==
    [data : [id : {<<"a">>, <<"B">>},
             stack : {""},
             status : {"beta"},
             summary : {<<"a">>, <<"b">>},
             tags : {SomeTags},
             aliases : {Undefined}],
     body : {<<>>}]

InitSteps ==
    /\ NoHttp /\ NoCache
    /\ baseline = SomeBaseline
    /\ catalog = SomeCatalog
    /\ \E present \in SUBSET Paths : components \in [present -> StepFiles]
    /\ NoRequest

NextSteps ==
    \/ \E module \in Modules : BeginBuild(module)
    \/ ReadText
    \/ IndexTexts
    \/ ReadRaw
    \/ IndexRaws
    \/ \E path \in Paths, file \in StepFiles \cup {Missing} :
          EditDuringBuild(path, file)

SpecSteps == InitSteps /\ [][NextSteps]_vars

----------------------------------------------------------------------------
(* The HTTP server: the session map, and one McpServer per session *)

MaxSessions == 2   \* transports created in one behaviour

\* randomUUID(): the session id of the k-th transport
SessionIdOf == <<"s1", "s2", "s3", "s4">>

\* const transports = {}: a plain object, so a key that is not its own is
\* looked up in Object.prototype
ObjectPrototype == {"constructor"}

\* req.headers["mcp-session-id"]: <<>> when the header is absent, <<value>>
\* when it is sent
SessionHeaders == {<<>>, <<"">>, <<"constructor">>, <<"s9">>}
                     \cup {<<SessionIdOf[k]>> : k \in 1..MaxSessions}
Bodies == {"initialize", "tools/call"}

\* sessionId as a condition: undefined and "" are falsy
Truthy(header) == header # <<>> /\ header[1] # ""

NoTransport == [found |-> "undefined"]
Inherited == [found |-> "inherited"]

\* transports[sessionId]
Lookup(header) ==
    IF header[1] \in DOMAIN transports
    THEN [found |-> "own", transport |-> transports[header[1]]]
    ELSE IF header[1] \in ObjectPrototype THEN Inherited ELSE NoTransport

\* registerTools: const cache = createIndexCache({...}), once per McpServer
NewServer == [sessionId |-> "", closed |-> FALSE, store |-> [s \in Stacks |-> NoSlot]]

\* cache.getIndex(stack) of the server behind transport k, start to end
SessionGetIndex(k, s) ==
    LET cached == servers[k].store[s]
        hit == cached # NoSlot /\ Fresh(now, cached.builtAtMs, cacheTtlSeconds)
        index == NewIndex(indexerCalls + 1, s)
    IN IF hit THEN [index |-> cached.index, built |-> FALSE, store |-> servers[k].store]
       ELSE [index |-> index, built |-> TRUE,
             store |-> [servers[k].store EXCEPT ![s] = [index |-> index, builtAtMs |-> now]]]

Answer(method, header, body, stack, status, handedTo, index) ==
    reply' = [method |-> method, header |-> header, body |-> body, stack |-> stack,
              status |-> status, handedTo |-> handedTo, index |-> index]

\* transport.handleRequest(req, res) of the transport the session map gave
\* (found.found = "own"), or the call of handleRequest on an inherited member
\* of Object.prototype, which has no such method (TypeError)
HandleRequest(method, header, body, stack, found) ==
    IF found = Inherited
    THEN /\ Answer(method, header, body, stack, "TypeError", 0, NoIndex)
         /\ UNCHANGED <<transports, servers, indexerCalls>>
    ELSE LET k == found.transport
         IN CASE method = "DELETE" ->
                   \* transport.close() runs onclose: delete transports[sessionId]
                   /\ transports' = [id \in DOMAIN transports \ {servers[k].sessionId} |->
                                        transports[id]]
                   /\ servers' = [servers EXCEPT ![k].closed = TRUE]
                   /\ Answer(method, header, body, stack, "200", k, NoIndex)
                   /\ UNCHANGED indexerCalls
              [] method = "GET" ->
                   /\ Answer(method, header, body, stack, "200", k, NoIndex)
                   /\ UNCHANGED <<transports, servers, indexerCalls>>
              [] method = "POST" /\ body = "initialize" ->
                   \* the transport is initialized already
                   /\ Answer(method, header, body, stack, "400", k, NoIndex)
                   /\ UNCHANGED <<transports, servers, indexerCalls>>
              [] method = "POST" /\ body = "tools/call" ->
                   LET got == SessionGetIndex(k, stack)
                   IN /\ servers' = [servers EXCEPT ![k].store = got.store]
                      /\ indexerCalls' = IF got.built THEN indexerCalls + 1 ELSE indexerCalls
                      /\ Answer(method, header, body, stack, "200", k, got.index)
                      /\ UNCHANGED transports

\* app.post("/mcp", ...)
PostMcp(header, body, stack) ==
    /\ (~Truthy(header) /\ body = "initialize") => Len(servers) < MaxSessions
    /\ IF Truthy(header) /\ Lookup(header) # NoTransport
       THEN HandleRequest("POST", header, body, stack, Lookup(header))
       ELSE IF ~Truthy(header) /\ body = "initialize"
       THEN \* new transport, createHttpMcpServer(), connect; handleRequest
            \* initializes the session: onsessioninitialized(id)
            LET k == Len(servers) + 1
                id == SessionIdOf[k]
            IN /\ servers' = Append(servers, [NewServer EXCEPT !.sessionId = id])
               /\ transports' = [i \in DOMAIN transports \cup {id} |->
                                    IF i = id THEN k ELSE transports[i]]
               /\ Answer("POST", header, body, stack, "200", k, NoIndex)
               /\ UNCHANGED indexerCalls
       ELSE /\ Answer("POST", header, body, stack, "400", 0, NoIndex)
            /\ UNCHANGED <<transports, servers, indexerCalls>>
    /\ UNCHANGED <<cacheTtlSeconds, now, store, calls, cleared, lastSet, diskVars, toolVars>>

\* handleSessionRequest: app.get("/mcp", ...) and app.delete("/mcp", ...)
HandleSessionRequest(method, header) ==
    /\ IF ~Truthy(header) \/ Lookup(header) = NoTransport
       THEN /\ Answer(method, header, "", "", "400", 0, NoIndex)
            /\ UNCHANGED <<transports, servers, indexerCalls>>
       ELSE HandleRequest(method, header, "", "", Lookup(header))
    /\ UNCHANGED <<cacheTtlSeconds, now, store, calls, cleared, lastSet, diskVars, toolVars>>

InitSessions ==
    /\ cacheTtlSeconds = MaxTtl
    /\ now = 0 /\ indexerCalls = 0
    /\ store = [s \in Stacks |-> NoSlot]
    /\ calls = <<>>
    /\ cleared = [s \in Stacks |-> FALSE]
    /\ lastSet = [s \in Stacks |-> 0]
    /\ NoDisk /\ NoRequest
    /\ transports = <<>> /\ servers = <<>> /\ reply = NoReply

NextSessions ==
    \/ \E header \in SessionHeaders, body \in Bodies : PostMcp(header, body, "web/react")
    \/ \E method \in {"GET", "DELETE"}, header \in SessionHeaders :
          HandleSessionRequest(method, header)
    \/ \E d \in TickMs : Tick(d)

SpecSessions == InitSessions /\ [][NextSessions]_vars



----------------------------------------------------------------------------
(* Claims about the rule mapper *)

\* the lines of the yaml fence of the rule block, as the author wrote them
YamlOf(block) == SubSeq(block.body, 2, Len(block.body) - 1)

\* the scope tokens the author declared, for a fence with one scope key: the
\* entries of its inline list or the "- item" lines below it up to the next
\* key
DeclaredTokens(lines) ==
    LET i == CHOOSE k \in KeyLines(lines, "scope:") : TRUE
        keys == {k \in (i + 1)..Len(lines) : Head(lines[k]) \in TopLevelKeys}
        last == IF keys = {} THEN Len(lines)
                ELSE (CHOOSE k \in keys : \A m \in keys : k <= m) - 1
    IN IF "[" \in Range(lines[i])
       THEN Range(lines[i]) \ {"scope:", Space, "[", "]", ","}
       ELSE UNION {Range(lines[k]) \ {"-", Space} :
                      k \in {m \in (i + 1)..last : "-" \in Range(lines[m])}}

\* the five tags in alphabetical order
TagRank(tag) == CASE tag = "component" -> 1 [] tag = "layout" -> 2 [] tag = "page" -> 3
                  [] tag = "style" -> 4 [] tag = "utility" -> 5 [] OTHER -> 0

----------------------------------------------------------------------------
(* Claims about the bullet scan *)

\* the text of a top-level bullet line ("- ", "* " or "N. " at column 0);
\* Null for every other line
BulletText(line) ==
    IF Len(line) >= 2 /\ line[1] \in {"-", "*"} /\ line[2] = Space
    THEN Trim(SubSeq(line, 3, Len(line)))
    ELSE IF Len(line) >= 3 /\ line[1] \in Digits /\ line[2] = "." /\ line[3] = Space
    THEN Trim(SubSeq(line, 4, Len(line)))
    ELSE Null

\* the text of a nested bullet line (2 or more leading spaces, a tab counting
\* for two, then "-" or "*"); Null for every other line
ChildText(line) ==
    LET wide == ExpandTabs(line)
        marker == TrimStart(wide)
    IN IF Len(wide) - Len(marker) >= 2 /\ Len(marker) >= 2
          /\ marker[1] \in {"-", "*"} /\ marker[2] = Space
       THEN Trim(SubSeq(marker, 3, Len(marker)))
       ELSE Null

IsChild(line) == ChildText(line) # Null
IsWrapped(line) == Trim(line) # <<>> /\ ChildText(line) = Null

RECURSIVE Rendered(_)
Rendered(children) ==
    IF children = <<>> THEN <<>>
    ELSE <<NewLine, Space, Space, "-", Space>> \o ChildText(Head(children))
            \o Rendered(Tail(children))
RECURSIVE Wrapped(_)
Wrapped(lines) ==
    IF lines = <<>> THEN <<>> ELSE <<Space>> \o Trim(Head(lines)) \o Wrapped(Tail(lines))

\* the string of the bullet that opens at line i: its text, the lines wrapped
\* below it, then one line per nested bullet up to the next top-level bullet
BulletString(lines, i) ==
    LET later == {j \in (i + 1)..Len(lines) : BulletText(lines[j]) # Null}
        last == IF later = {} THEN Len(lines)
                ELSE (CHOOSE j \in later : \A k \in later : j <= k) - 1
        below == SubSeq(lines, i + 1, last)
    IN BulletText(lines[i]) \o Wrapped(SelectSeq(below, IsWrapped))
          \o Rendered(SelectSeq(below, IsChild))

\* the strings of the bullets that open at the lines i..Len(lines): at every
\* top-level bullet line, or only at those with a text
RECURSIVE BulletStrings(_, _, _)
BulletStrings(lines, i, blankToo) ==
    IF i > Len(lines) THEN <<>>
    ELSE (IF BulletText(lines[i]) # Null /\ (blankToo \/ BulletText(lines[i]) # <<>>)
          THEN <<BulletString(lines, i)>> ELSE <<>>)
            \o BulletStrings(lines, i + 1, blankToo)

\* the lines of the section at the positions in keep, in their order
Pick(lines, keep) ==
    LET picked[i \in 0..Len(lines)] ==
            IF i = 0 THEN <<>>
            ELSE IF i \in keep THEN Append(picked[i - 1], lines[i]) ELSE picked[i - 1]
    IN picked[Len(lines)]

\* the first line of an item: its text, before the lines of its children
FirstLine(item) ==
    LET breaks == {i \in 1..Len(item) : item[i] = NewLine}
    IN IF breaks = {} THEN item
       ELSE SubSeq(item, 1, (CHOOSE i \in breaks : \A j \in breaks : i <= j) - 1)

----------------------------------------------------------------------------
(* Claims about extractSections *)

\* a heading line with a label that no module recognizes
Unrecognized(line) == line = <<"#", "#", Space, "a">>
Heading(line) == Len(line) >= 3 /\ line[1] = "#" /\ line[2] = "#" /\ line[3] = Space

\* the body without the lines that stand below an unrecognized heading
RECURSIVE WithoutUnrecognized(_, _)
WithoutUnrecognized(lines, below) ==
    IF lines = <<>> THEN <<>>
    ELSE IF Heading(Head(lines))
    THEN <<Head(lines)>> \o WithoutUnrecognized(Tail(lines), Unrecognized(Head(lines)))
    ELSE (IF below THEN <<>> ELSE <<Head(lines)>>)
            \o WithoutUnrecognized(Tail(lines), below)

SubHeading(line) == Len(line) >= 4 /\ SubSeq(line, 1, 4) = <<"#", "#", "#", Space>>

\* the lines of the one Must Haves section of the body: from its heading to
\* the next "## " heading
MustHavesLines(body) ==
    LET j == CHOOSE i \in 1..Len(body) : body[i] = <<"#", "#", Space, "Must Haves">>
        later == {i \in (j + 1)..Len(body) : Heading(body[i])}
        last == IF later = {} THEN Len(body)
                ELSE (CHOOSE i \in later : \A k \in later : i <= k) - 1
    IN SubSeq(body, j + 1, last)

----------------------------------------------------------------------------
(* Claims about the snippets *)

\* the fenced blocks of a rule body as the author wrote them, line by line: a
\* line that begins with the fence mark opens a block and carries its tag,
\* the next line that is the mark alone closes it, and a block that is never
\* closed is no block; a block stands under the subheading that was the last
\* one before it. open is the block being read, if one is.
RECURSIVE WrittenBlocks(_, _, _)
WrittenBlocks(lines, under, open) ==
    IF lines = <<>> THEN <<>>
    ELSE LET line == Head(lines)
         IN IF open.reading
            THEN IF line = <<FenceMark>>
                 THEN <<open>> \o WrittenBlocks(Tail(lines), under, [reading |-> FALSE])
                 ELSE WrittenBlocks(Tail(lines), under,
                                    [open EXCEPT !.lines = Append(@, line)])
            ELSE IF line # <<>> /\ Head(line) = FenceMark
            THEN WrittenBlocks(Tail(lines), under,
                               [reading |-> TRUE, tag |-> Tail(line), lines |-> <<>>,
                                under |-> under])
            ELSE IF H3Match(line) # Null
            THEN WrittenBlocks(Tail(lines), ToLowerCase(Trim(H3Match(line))), open)
            ELSE WrittenBlocks(Tail(lines), under, open)

\* the blocks written under the Snippets subheading
UnderSnippets(body) ==
    SelectSeq(WrittenBlocks(body, <<>>, [reading |-> FALSE]), LAMBDA b : b.under = <<"snippets">>)

\* the snippet a written block stands for
SnippetOf(b) ==
    [language |-> IF b.tag = <<>> THEN <<"text">> ELSE ToLowerCase(b.tag),
     code |-> Trim(Join(b.lines, <<NewLine>>))]

\* the number of times x stands in xs
Count(xs, x) == Cardinality({i \in 1..Len(xs) : xs[i] = x})

\* ordered by (language, code)
ByLanguageThenCode(a, b) ==
    \/ LocaleCompare(a.language, b.language) < 0
    \/ /\ LocaleCompare(a.language, b.language) = 0
       /\ LocaleCompare(a.code, b.code) <= 0

\* a rule body of the yaml fence and the given blocks under the Snippets
\* subheading, in the order f
SnippetBody(blocks, f) ==
    Fenced(<<"yaml">>, <<<<"id:", Space, "a">>, InlineScope(<<"page">>)>>)
        \o <<<<"###", Space, "Snippets">>>>
        \o Join([i \in 1..Len(blocks) |-> Fenced(blocks[f[i]].tag, blocks[f[i]].lines)],
                <<>>)

Orders(n) == {f \in [1..n -> 1..n] : \A i, j \in 1..n : f[i] = f[j] => i = j}

\* the snippets are the written blocks under Snippets, ordered, and the same
\* in whatever order these blocks are written
SnippetsAreTheBlocks(body, snippets) ==
    LET blocks == UnderSnippets(body)
        written == [i \in 1..Len(blocks) |-> SnippetOf(blocks[i])]
    IN /\ Len(snippets) = Len(written)
       /\ \A x \in Range(snippets) \cup Range(written) :
             Count(snippets, x) = Count(written, x)
       /\ \A i, j \in 1..Len(snippets) :
             i < j => ByLanguageThenCode(snippets[i], snippets[j])
       /\ \A f, g \in Orders(Len(blocks)) :
             ParseOneRule([title |-> <<"a">>, body |-> SnippetBody(blocks, f)])
                = ParseOneRule([title |-> <<"a">>, body |-> SnippetBody(blocks, g)])

\* C20: the snippets of a rule are exactly the fenced code blocks under its
\* Snippets subheading, each with its language tag (text when the fence has
\* none) and its trimmed code, ordered by (language, code); the list is the
\* same for every order in which the same blocks are written, and a fenced
\* block outside Snippets, such as the yaml fence of the id, is never a
\* snippet.
C20_SnippetsAreTheBlocksUnderSnippets ==
    (resp.op = "parseOneRule" /\ resp.result.ok) =>
        SnippetsAreTheBlocks(baseline.blocks[1].body, resp.result.rule.snippets)

\* a tag of letters, digits, _ and - only, or none
WordTag(tag) == \A i \in 1..Len(tag) : tag[i] \in WordSymbols

\* a body of whole blocks with such tags, of lines without a fence mark and
\* of at most one Snippets subheading
PlainBody(body) ==
    LET written == WrittenBlocks(body, <<>>, [reading |-> FALSE])
        marks == Cardinality({i \in 1..Len(body) :
                                 body[i] # <<>> /\ Head(body[i]) = FenceMark})
        headings == {i \in 1..Len(body) :
                        /\ H3Match(body[i]) # Null
                        /\ ToLowerCase(Trim(H3Match(body[i]))) = <<"snippets">>}
    IN /\ marks = 2 * Len(written)
       /\ Cardinality(headings) <= 1
       /\ \A i \in 1..Len(written) :
             /\ WordTag(written[i].tag)
             /\ \A k \in 1..Len(written[i].lines) : H3Match(written[i].lines[k]) = Null

\* C20 for the bodies with one Snippets subheading at most whose blocks are
\* all closed, carry word tags and hold no subheading line
PlainSnippetsAreTheBlocks ==
    (resp.op = "parseOneRule" /\ resp.result.ok /\ PlainBody(baseline.blocks[1].body)) =>
        SnippetsAreTheBlocks(baseline.blocks[1].body, resp.result.rule.snippets)

\* two plain blocks under Snippets, written against their order
PlainSnippetsReached ==
    /\ resp.op = "parseOneRule"
    /\ resp.result.ok
    /\ PlainBody(baseline.blocks[1].body)
    /\ Len(resp.result.rule.snippets) = 2
    /\ resp.result.rule.snippets[1] # SnippetOf(UnderSnippets(baseline.blocks[1].body)[1])

----------------------------------------------------------------------------
(* Claims about the index cache *)

InFlight(s) == {c \in CallIds : calls[c].pc = "building" /\ calls[c].stack = s}

\* C1: a getIndex(stack) call that finds a slot with
\* (now - builtAtMs)/1000 < ttlSeconds returns the slot's index, does not
\* invoke the indexer and leaves the store unchanged; otherwise (no slot, or
\* age >= ttlSeconds) it invokes the indexer once, and when the build
\* resolves it overwrites the slot with the newly built index; the indexer is
\* never invoked outside a getIndex call.
C1_GetIndexContract ==
    [][ /\ \A c \in CallIds :
            /\ (calls[c].pc = "idle" /\ calls'[c].pc # "idle") =>
                 LET s == calls'[c].stack
                     slot == store[s]
                 IN IF slot # NoSlot
                       /\ (now - slot.builtAtMs) < cacheTtlSeconds * MsPerSecond
                    THEN /\ calls'[c].pc = "hit"
                         /\ calls'[c].index = slot.index
                         /\ store' = store
                         /\ indexerCalls' = indexerCalls
                    ELSE /\ calls'[c].pc = "building"
                         /\ store' = store
                         /\ indexerCalls' = indexerCalls + 1
            /\ (calls[c].pc = "building" /\ calls'[c].pc = "done") =>
                 /\ calls'[c].index.builder = c
                 /\ store'[calls[c].stack] =
                        [index |-> calls'[c].index, builtAtMs |-> calls[c].now]
                 /\ \A t \in Stacks \ {calls[c].stack} : store'[t] = store[t]
                 /\ indexerCalls' = indexerCalls
        /\ indexerCalls' # indexerCalls =>
             \E c \in CallIds : calls[c].pc = "idle" /\ calls'[c].pc = "building"
      ]_vars

\* C1 witness: a call that found a slot aged exactly ttlSeconds (> 0) has
\* rebuilt and overwritten the slot with its own index.
C1_Witness ==
    \E c \in CallIds :
        /\ calls[c].pc = "done"
        /\ cacheTtlSeconds > 0
        /\ calls[c].cached # NoSlot
        /\ calls[c].now - calls[c].cached.builtAtMs = cacheTtlSeconds * MsPerSecond
        /\ store[calls[c].stack].index.builder = c

\* C2: after clear(stack) or clear(), the next getIndex(stack) call rebuilds
\* through the indexer instead of returning a cached index, in every
\* interleaving of clear with getIndex calls (a clear issued while a rebuild
\* of the stack is in flight included).
C2_NextGetIndexRebuilds ==
    \A c \in CallIds : calls[c].afterClear => calls[c].pc # "hit"

\* C2, second sentence: clear(stack) removes that stack's slot and leaves the
\* slot of every other stack unchanged.
ClearLeavesOtherStacks ==
    [][ \A s \in Stacks :
          (cleared'[s] /\ ~cleared[s] /\ calls' = calls) =>
             \/ \A t \in Stacks : store'[t] = NoSlot /\ cleared'[t]
             \/ store'[s] = NoSlot /\ \A t \in Stacks \ {s} : store'[t] = store[t]
      ]_vars

\* C3: overlapping getIndex calls of one stack each run their own rebuild;
\* the slot is at every moment absent or exactly the {index, builtAtMs} of
\* one finished call (that call's own index, that call's timestamp); once no
\* rebuild of the stack is in flight, the slot is the one written by the
\* call that finished last.
C3_SlotIsOneWholeBuild ==
    /\ indexerCalls =
           Cardinality({c \in CallIds : calls[c].pc \in {"building", "done", "failed"}})
    /\ \A s \in Stacks :
        /\ store[s] # NoSlot =>
             \E c \in CallIds :
                /\ calls[c].pc = "done"
                /\ calls[c].stack = s
                /\ calls[c].index.builder = c
                /\ calls[c].index.stack = s
                /\ store[s] = [index |-> calls[c].index, builtAtMs |-> calls[c].now]
        /\ (InFlight(s) = {} /\ lastSet[s] # 0) =>
             store[s] = [index |-> calls[lastSet[s]].index,
                         builtAtMs |-> calls[lastSet[s]].now]

\* C3 witness: two calls of one stack overlapped (the later one started
\* with no slot and no clear in between), both finished, and the one that
\* started first finished last and owns the slot.
C3_Witness ==
    \E c, d \in CallIds :
        /\ c < d
        /\ calls[c].pc = "done" /\ calls[d].pc = "done"
        /\ calls[c].stack = calls[d].stack
        /\ calls[d].cached = NoSlot /\ ~calls[d].afterClear
        /\ calls[c].now < calls[d].now
        /\ lastSet[calls[c].stack] = c
        /\ store[calls[c].stack].index.builder = c

----------------------------------------------------------------------------
\* call c starts, or fails, in this step
CallStarts(c) == calls[c].pc = "idle" /\ calls'[c].pc \in {"hit", "building"}
CallFails(c) == calls[c].pc = "building" /\ calls'[c].pc = "failed"

----------------------------------------------------------------------------

(* Claims about the indexer *)

Built == resp.op = "buildPatternIndex" /\ resp.result.ok

\* C4: every PatternIndex returned by buildPatternIndex has only non-empty
\* ids, no id twice in all, all sorted ascending by id (in the order of the
\* comparator, localeCompare), and byId, idToPath and all hold exactly the
\* same ids, one entry per enumerated component file.
C4_IndexWellFormed ==
    Built =>
      LET r == resp.result
          ids == {r.all[i].id : i \in 1..Len(r.all)}
      IN /\ \A i \in 1..Len(r.all) : r.all[i].id # <<>>
         /\ \A i, j \in 1..Len(r.all) : i # j => r.all[i].id # r.all[j].id
         /\ \A i, j \in 1..Len(r.all) :
               i < j => LocaleCompare(r.all[i].id, r.all[j].id) < 0
         /\ DOMAIN r.byId = ids
         /\ DOMAIN r.idToPath = ids
         /\ \A i \in 1..Len(r.all) : r.byId[r.all[i].id] = r.all[i]
         /\ Len(r.all) = Cardinality(DOMAIN components)
         /\ {r.idToPath[id] : id \in ids} = DOMAIN components

\* C4 witness: an index of two files whose path order is not their id order.
C4_Witness ==
    /\ Built
    /\ Len(resp.result.all) >= 2
    /\ \E i, j \in 1..Len(resp.result.all) :
          /\ i < j
          /\ LocaleCompare(resp.result.idToPath[resp.result.all[j].id],
                           resp.result.idToPath[resp.result.all[i].id]) < 0

\* the module that served the build in resp, run on another enumeration
Rebuilt(found) ==
    IF resp.module = "compiled" THEN BuildPatternIndex(resp.stack, resp.ttl, found)
    ELSE BuildPatternIndexTs(resp.stack, resp.ttl, found)

\* C11: buildPatternIndex is deterministic and order-independent: a second
\* build for the same stack over the same baseline, catalog and component
\* files produces the same catalog_revision and the same all list, whatever
\* order the file system enumerates the component files in.
C11_BuildIsOrderIndependent ==
    Built =>
      \A found \in Enumerations :
          /\ Rebuilt(found).ok
          /\ Rebuilt(found).cache.catalog_revision = resp.result.cache.catalog_revision
          /\ Rebuilt(found).all = resp.result.all

\* C11 for the compiled module alone, which sorts the paths first.
CompiledBuildIsOrderIndependent ==
    (Built /\ resp.module = "compiled") => C11_BuildIsOrderIndependent


\* C12: treating the digest as collision-free, two builds produce the same
\* catalog_revision only if they have the same stack name, the same baseline
\* text, the same catalog text and the same set of (component path, content)
\* pairs.
C12_RevisionSeparatesInputs ==
    (resp.op = "catalog_revision" /\ resp.before # NoResult) =>
        (resp.revision = resp.before.revision => resp.input = resp.before.input)

ReadCount(path) == Cardinality({i \in 3..Len(reads) : reads[i] = path})

\* the summaries that the module in use derives from the texts that went
\* into the revision
SummariesOf(module, componentPaths, fileTextByPath, stack) ==
    IF module = "compiled"
    THEN IndexFiles(NoAcc, componentPaths, fileTextByPath, stack, catalog.selection)
    ELSE IndexFilesTs(NoAcc, componentPaths, fileTextByPath, stack)

\* C22: during one buildPatternIndex call the text of every component file
\* is read exactly once, and the summaries of the index are parsed from the
\* texts that its catalog_revision was computed from, also when a file
\* changes while the build runs.
C22_EveryFileReadOnce ==
    (resp.op = "buildPatternIndex" /\ resp.result.ok) =>
      /\ \A i \in 1..Len(resp.componentPaths) : ReadCount(resp.componentPaths[i]) = 1
      /\ LET built == SummariesOf(resp.module, resp.componentPaths,
                                  resp.fileTextByPath, resp.stack)
         IN /\ built.ok
            /\ resp.result.all = SortById(built.all)

\* C22 for the compiled module alone
CompiledBuildReadsOnce ==
    (resp.op = "buildPatternIndex" /\ resp.module = "compiled") => C22_EveryFileReadOnce

\* a build of the compiled module that ended with an index while a file was
\* edited after its text had been read
CompiledBuildWithEditReached ==
    /\ resp.op = "buildPatternIndex"
    /\ resp.module = "compiled"
    /\ resp.result.ok
    /\ \E p \in DOMAIN resp.fileTextByPath :
          p \notin DOMAIN components \/ components[p] # resp.fileTextByPath[p]

----------------------------------------------------------------------------
(* Claims about the HTTP server *)

\* a step in which a tools/call request was served with an index
ToolCallStep ==
    /\ now' = now
    /\ reply'.method = "POST" /\ reply'.body = "tools/call" /\ reply'.status = "200"

\* the index a cache of the process holds for the stack and would still
\* return (its TTL has not elapsed)
HeldIndexes(stack) ==
    {servers[k].store[stack].index :
        k \in {j \in 1..Len(servers) :
                  /\ servers[j].store[stack] # NoSlot
                  /\ Fresh(now, servers[j].store[stack].builtAtMs, cacheTtlSeconds)}}

\* C23: the process has one index cache shared by every query operation: an
\* index built for a stack by one request is the index returned to every
\* later request for that stack, from the same or from another client
\* session, until its TTL elapses.
C23_OneCachePerProcess ==
    [][ToolCallStep => \A index \in HeldIndexes(reply'.stack) : reply'.index = index]_vars

\* What holds: within one session, a request for a stack is given the index
\* an earlier request of that session built, until its TTL elapses.
SessionCacheIsShared ==
    [][ToolCallStep =>
         LET slot == servers[reply'.handedTo].store[reply'.stack]
         IN (slot # NoSlot /\ Fresh(now, slot.builtAtMs, cacheTtlSeconds))
               => reply'.index = slot.index]_vars

\* a request of a session was served from that session's cache
SessionHitReached ==
    /\ reply.method = "POST" /\ reply.body = "tools/call" /\ reply.status = "200"
    /\ reply.index.builder < indexerCalls

----------------------------------------------------------------------------
\* a step of one request to /mcp; reply' describes the request
RequestStep == now' = now /\ reply'.method # "none"

\* the request creates a session by the claim's rule: a POST with no
\* session-id header and an initialize body
Initializes == reply'.method = "POST" /\ reply'.header = <<>> /\ reply'.body = "initialize"

\* the request's session id is missing or is no key of the session map
NotListed == reply'.header = <<>> \/ reply'.header[1] \notin DOMAIN transports

\* the session map holds exactly the sessions that were initialized and whose
\* transport has not closed
MapIsTheOpenSessions ==
    /\ DOMAIN transports = {servers[k].sessionId :
                               k \in {j \in 1..Len(servers) : ~servers[j].closed}}
    /\ \A id \in DOMAIN transports : servers[transports[id]].sessionId = id

\* no request is handed to the transport of a closed session
HandedToOpen == reply'.handedTo \in 1..Len(servers) => ~servers[reply'.handedTo].closed

\* C30: a session is created only by a POST /mcp with no session-id header
\* and an initialize body; every other POST, GET or DELETE whose session id is
\* missing or not in the session map is answered with status 400 and changes
\* nothing; the session map holds exactly the initialized sessions whose
\* transport has not closed, and no request is handed to a closed session's
\* transport.
C30_UnlistedSessionIsRefused ==
    [][RequestStep =>
         /\ Len(servers') > Len(servers) => Initializes
         /\ (NotListed /\ ~Initializes) =>
               /\ reply'.status = "400"
               /\ UNCHANGED <<transports, servers>>
         /\ MapIsTheOpenSessions'
         /\ HandedToOpen]_vars

\* What holds: the same for the requests whose session id, when they carry
\* one, is not empty and is no name of a member of Object.prototype.
OrdinaryIdIsRefused ==
    [][(/\ RequestStep
        /\ reply'.header # <<>> => reply'.header[1] \notin ObjectPrototype \cup {""}) =>
         /\ Len(servers') > Len(servers) => Initializes
         /\ (NotListed /\ ~Initializes) =>
               /\ reply'.status = "400"
               /\ UNCHANGED <<transports, servers>>]_vars

\* What holds for every request: the session map and the transports handed to.
OpenSessionsAreServed == [][RequestStep => MapIsTheOpenSessions' /\ HandedToOpen]_vars

\* a request with the session id of a closed session was refused
ClosedSessionRefusedReached ==
    /\ reply.method # "none" /\ reply.status = "400" /\ reply.header # <<>>
    /\ \E k \in 1..Len(servers) :
          servers[k].closed /\ servers[k].sessionId = reply.header[1]

(* Claims about the query operations *)

Listed == resp.op = "listPatterns" /\ resp.result.ok

Got == resp.op = "getPattern"

\* C6 as stated: getPattern called with an id that is not a key of the
\* index's idToPath fails with the not-found error and reads no file, whatever
\* the requested stack; no other failure of getPattern is a not-found error.
C6_UnknownIdIsNotFound ==
    Got =>
      LET notFound == ~resp.result.ok /\ resp.result.message[1] = "PATTERN_NOT_FOUND:"
          unknown == resp.args.id \notin DOMAIN patternIndex.idToPath
      IN /\ unknown => (notFound /\ reads = <<>>)
         /\ notFound => unknown

\* C6, amended: getPattern called with the index's stack and an id that is
\* not a key of the index's idToPath fails with the PATTERN_NOT_FOUND error
\* and reads no file; every other failure of getPattern (stack mismatch, a
\* missing file, bad content) carries another message, and a call whose
\* stack differs from the index's fails with the stack mismatch first.
C6_KnownStackUnknownIdIsNotFound ==
    Got =>
      LET notFound == ~resp.result.ok /\ resp.result.message[1] = "PATTERN_NOT_FOUND:"
          unknown == resp.args.id \notin DOMAIN patternIndex.idToPath
          sameStack == resp.args.stack = patternIndex.stack
      IN /\ (sameStack /\ unknown) => (notFound /\ reads = <<>>)
         /\ notFound => (sameStack /\ unknown)
         /\ (~sameStack /\ unknown) => resp.result.message[1] = "Stack mismatch."

\* C6 witness: an unknown id was requested from an index that holds a
\* pattern whose id differs from it by case only.
C6_Witness ==
    /\ Got
    /\ resp.args.stack = patternIndex.stack
    /\ resp.args.id \notin DOMAIN patternIndex.idToPath
    /\ \E id \in DOMAIN patternIndex.idToPath : ToLowerCase(id) = ToLowerCase(resp.args.id)
    /\ ~resp.result.ok

Queried == resp.op \in {"listPatterns", "getPattern", "getGlobalRules"}

\* C7: listPatterns, getPattern and getGlobalRules each fail with the stack
\* mismatch error whenever the requested stack differs from index.stack; the
\* call then reads no file and its failure carries nothing of the index but
\* the two stack names.
C7_StackMismatchFirst ==
    (Queried /\ resp.args.stack # patternIndex.stack) =>
        /\ resp.result = [ok |-> FALSE,
                          message |-> <<"Stack mismatch.", patternIndex.stack,
                                        resp.args.stack>>]
        /\ reads = <<>>

\* C7 witness: a getPattern request for an id the index holds, under the
\* other stack.
C7_Witness ==
    /\ Got
    /\ resp.args.stack # patternIndex.stack
    /\ resp.args.id \in DOMAIN patternIndex.idToPath
    /\ ~resp.result.ok

\* C8: every successful getPattern call returns the sections of the file as
\* it is on disk at the call, read once, also when the file was edited after
\* the index was built and after an earlier call; the catalog_revision and
\* cache_ttl_seconds of each response, the earlier one included, are those of
\* the index in hand, which no call and no edit changes.
C8_FileReadAgain ==
    (Got /\ resp.result.ok) =>
      LET path == patternIndex.idToPath[resp.args.id]
      IN /\ reads = <<path>>
         /\ resp.result.pattern.sections = ExtractSections(components[path].body)
         /\ resp.result.catalog_revision = patternIndex.cache.catalog_revision
         /\ resp.result.cache_ttl_seconds = patternIndex.cache.cache_ttl_seconds
         /\ (resp.before # NoResult /\ resp.before.ok) =>
               /\ resp.before.catalog_revision = resp.result.catalog_revision
               /\ resp.before.cache_ttl_seconds = resp.result.cache_ttl_seconds

\* C8 witness: two successful calls for one id on one index, the file's
\* body edited in between, and the two responses differ in their sections.
C8_Witness ==
    /\ Got
    /\ resp.result.ok
    /\ resp.before # NoResult
    /\ resp.before.ok
    /\ resp.before.pattern.sections # resp.result.pattern.sections

\* C21: getPattern validates the file it reads against the request. When the
\* index lists the requested id for the requested stack and the file at the
\* listed path declares, at the call, an empty id or an id other than the
\* requested one, a stack other than the requested one, or an empty summary,
\* the call fails with an error that names the file and returns no detail
\* record.
C21_FileIsRevalidated ==
    (Got /\ resp.args.stack = patternIndex.stack
         /\ resp.args.id \in DOMAIN patternIndex.idToPath
         /\ patternIndex.idToPath[resp.args.id] \in DOMAIN components) =>
      LET path == patternIndex.idToPath[resp.args.id]
          data == components[path].data
      IN (\/ Trim(StringOrEmpty(data.id)) # resp.args.id
          \/ data.stack \notin {"", resp.args.stack}
          \/ Trim(StringOrEmpty(data.summary)) = <<>>)
           => /\ ~resp.result.ok
              /\ resp.result.message[Len(resp.result.message)] = path
              /\ "pattern" \notin DOMAIN resp.result

\* C21 witness: a first call returned the detail record; the file was then
\* edited to declare another id, and the same call on the same index fails.
C21_Witness ==
    /\ Got
    /\ resp.before # NoResult
    /\ resp.before.ok
    /\ ~resp.result.ok
    /\ resp.args.id \in DOMAIN patternIndex.idToPath
    /\ patternIndex.idToPath[resp.args.id] \in DOMAIN components
    /\ Trim(StringOrEmpty(components[patternIndex.idToPath[resp.args.id]].data.id))
          \notin {<<>>, resp.args.id}

----------------------------------------------------------------------------
\* getPattern succeeded on the index as built: no file was edited since
FirstGot == Got /\ resp.before = NoResult /\ resp.result.ok

\* C25: for a component file unchanged since the build, the id, stack,
\* status, summary, tags and aliases of the detail record getPattern returns
\* equal the fields of the PatternSummary the index holds for that id,
\* de-duplication and sorted order of tags and aliases included.
C25_DetailEqualsSummary ==
    FirstGot =>
      LET detail == resp.result.pattern
          summary == patternIndex.byId[resp.args.id]
      IN /\ detail.id = summary.id
         /\ detail.stack = summary.stack
         /\ detail.status = summary.status
         /\ detail.summary = summary.summary
         /\ detail.tags = summary.tags
         /\ detail.aliases = summary.aliases

\* What holds: id, stack, status and summary are equal, and the detail has
\* the tags and aliases of the summary as the file writes them, repeated and
\* unsorted where the file repeats them or writes them unsorted.
DetailHasTheTagsAsWritten ==
    FirstGot =>
      LET detail == resp.result.pattern
          summary == patternIndex.byId[resp.args.id]
      IN /\ detail.id = summary.id
         /\ detail.stack = summary.stack
         /\ detail.status = summary.status
         /\ detail.summary = summary.summary
         /\ Range(detail.tags) = Range(summary.tags)
         /\ Range(detail.aliases) = Range(summary.aliases)
         /\ detail.tags = components[patternIndex.idToPath[resp.args.id]].data.tags

(* Claims about get_global_rules *)
\* a response that carries the meta of the baseline document
MetaReturned ==
    /\ resp.op \in {"getGlobalRules", "parseGlobalRulesMarkdown"}
    /\ resp.result.ok
    /\ baseline.data.apply_policy.declared
    /\ \A i \in 1..Len(baseline.data.apply_policy.scopes_in_order) :
          baseline.data.apply_policy.scopes_in_order[i] \in ALLOWED_SCOPES

\* C24: meta.apply_policy.scopes_in_order is the list of scopes in the order
\* in which the frontmatter of the baseline file declares them, for every
\* declared list of valid scope tags.
C24_ScopesKeepDeclaredOrder ==
    MetaReturned =>
      resp.result.meta.apply_policy.scopes_in_order =
          baseline.data.apply_policy.scopes_in_order

\* What holds: the list of src/src/repo/globalRules.ts has the declared tags,
\* each once, in alphabetical order; getGlobalRules of src/src/tools and the
\* compiled parser return the list as declared.
ScopesSortedOrDeclared ==
    MetaReturned =>
      LET declared == baseline.data.apply_policy.scopes_in_order
          returned == resp.result.meta.apply_policy.scopes_in_order
          sorts == IF resp.op = "getGlobalRules" THEN resp.module = "compiled"
                   ELSE resp.module = "typescript"
      IN IF sorts
         THEN /\ Range(returned) = Range(declared)
              /\ \A i, j \in 1..Len(returned) :
                    i < j => TagRank(returned[i]) < TagRank(returned[j])
         ELSE returned = declared



Ruled == resp.op = "getGlobalRules" /\ resp.result.ok

\* the tags of a scope argument
ScopeTags(scope) ==
    IF scope.kind = "array" THEN Range(scope.tags) ELSE {scope.tag}

\* C9: getGlobalRules with a scope argument (a single tag or a list of tags)
\* returns in rules.items exactly the rules of the parsed baseline document
\* whose scope shares a tag with the argument, in the order of the parsed
\* rules (sorted by id); without a scope argument it returns every rule.
C9_ItemsAreTheRulesInScope ==
    Ruled =>
      LET parsed == ParseGlobalRulesMarkdown(baseline, resp.args.stack)
          scope == resp.args.scope
          wanted == IF scope = NoScope THEN Range(parsed.rules)
                    ELSE {r \in Range(parsed.rules) :
                             Range(r.scope) \cap ScopeTags(scope) # {}}
      IN /\ "items" \in DOMAIN resp.result.rules
         /\ LET items == resp.result.rules.items
            IN /\ Range(items) = wanted
               /\ \A i, j \in 1..Len(items) :
                     i < j => LocaleCompare(items[i].id, items[j].id) < 0

\* C9 for the compiled module alone: its rules.items are the rules in scope.
CompiledItemsAreTheRulesInScope ==
    (Ruled /\ resp.module = "compiled") => C9_ItemsAreTheRulesInScope

\* a rule block that violates a rule of the rule mapper
BlockViolates(block) == ~ParseOneRule(block).ok

\* C14: parseGlobalRulesMarkdown is all-or-nothing: if any rule block of the
\* document (no yaml fence, empty id, empty or invalid scope, duplicate rule
\* id) violates a rule, the whole call fails; a call that succeeds returns
\* one rule per rule block and omits none.
C14_ParseIsAllOrNothing ==
    (resp.op = "getGlobalRules" /\ resp.module = "compiled"
        /\ resp.args.stack = patternIndex.stack /\ resp.args.scope = NoScope) =>
      LET blocks == baseline.blocks
          violated == \/ \E i \in 1..Len(blocks) : BlockViolates(blocks[i])
                      \/ \E i, j \in 1..Len(blocks) :
                            /\ i # j /\ ParseOneRule(blocks[i]).ok /\ ParseOneRule(blocks[j]).ok
                            /\ ParseOneRule(blocks[i]).rule.id = ParseOneRule(blocks[j]).rule.id
      IN /\ violated => ~resp.result.ok
         /\ resp.result.ok => Len(resp.result.rules.items) = Len(blocks)

\* C14 for the rule blocks whose title is not blank: all-or-nothing.
TitledBlocksAreAllOrNothing ==
    (resp.op = "getGlobalRules" /\ resp.module = "compiled"
        /\ resp.args.stack = patternIndex.stack /\ resp.args.scope = NoScope
        /\ \A i \in 1..Len(baseline.blocks) : TitledBlock(baseline.blocks[i])) =>
      C14_ParseIsAllOrNothing

\* a component file that violates a rule of the indexer
FileViolates(file, stack) ==
    \/ Trim(StringOrEmpty(file.data.id)) = <<>>
    \/ Trim(StringOrEmpty(file.data.summary)) = <<>>
    \/ file.data.status \notin AllowedStatus
    \/ file.data.stack # "" /\ file.data.stack # stack

\* C14 for the compiled buildPatternIndex: a component file that violates a
\* rule, or an id declared twice, fails the build; no file is left out.
CompiledBuildIsAllOrNothing ==
    (resp.op = "buildPatternIndex" /\ resp.module = "compiled"
        /\ baseline # Missing /\ catalog # Missing) =>
      LET violated ==
              \/ \E q \in DOMAIN components : FileViolates(components[q], resp.stack)
              \/ \E q, r \in DOMAIN components :
                    q # r /\ Trim(StringOrEmpty(components[q].data.id))
                               = Trim(StringOrEmpty(components[r].data.id))
      IN /\ violated => ~resp.result.ok
         /\ resp.result.ok => Len(resp.result.all) = Cardinality(DOMAIN components)

\* the file paths that the text of a buildPatternIndex error contains
NamedPaths(message) ==
    IF message[1] \in {"Pattern missing 'id' in frontmatter: ",
                       "Pattern missing 'summary' in frontmatter: "}
    THEN {message[2]}
    ELSE IF message[1] \in {"Invalid status in file",
                            "Duplicate pattern id found. Second copy: "}
    THEN {message[3]}
    ELSE {}
ContentError(message) ==
    message[1] \notin {"Missing baseline file: ", "Missing catalog file: ",
                       "patterns.json is not valid JSON."}

\* C15: every content error of buildPatternIndex identifies the offending
\* file: a missing id, missing summary, invalid status or foreign stack error
\* carries the path of that file, and a duplicate-id error carries the paths
\* of both files that declare the id.
C15_ErrorsNameTheFiles ==
    (resp.op = "buildPatternIndex" /\ ~resp.result.ok
        /\ ContentError(resp.result.message)) =>
      LET message == resp.result.message
          named == NamedPaths(message)
      IN IF message[1] = "Duplicate pattern id found. Second copy: "
         THEN \E q, r \in DOMAIN components :
                 /\ q # r /\ {q, r} \subseteq named
                 /\ Trim(StringOrEmpty(components[q].data.id)) = message[2]
                 /\ Trim(StringOrEmpty(components[r].data.id)) = message[2]
         ELSE \E q \in DOMAIN components :
                 q \in named /\ FileViolates(components[q], resp.stack)

\* C15 without the foreign-stack error and with one path for a duplicate:
\* the error names a file that violates a rule, or the second file of an id.
ErrorsNameOneFile ==
    (resp.op = "buildPatternIndex" /\ ~resp.result.ok
        /\ ContentError(resp.result.message)
        /\ resp.result.message[1] # "Pattern declares stack but is located under stack") =>
      LET message == resp.result.message
      IN \E q \in DOMAIN components :
            /\ q \in NamedPaths(message)
            /\ IF message[1] = "Duplicate pattern id found. Second copy: "
               THEN /\ Trim(StringOrEmpty(components[q].data.id)) = message[2]
                    /\ \E r \in DOMAIN components \ {q} :
                          Trim(StringOrEmpty(components[r].data.id)) = message[2]
               ELSE FileViolates(components[q], resp.stack)

\* the rule blocks of the baseline document, as the module splits them
RuleBlocksOf(module) ==
    IF module = "compiled" THEN SplitByH2RuleJs(baseline.blocks, <<>>)
    ELSE SplitByH2Rule(baseline.blocks)
RuleIdOf(module, block) ==
    IF module = "compiled" THEN ParseOneRuleJs(block) ELSE ParseOneRule(block)

\* C16: every rule list returned by parseGlobalRulesMarkdown is sorted
\* ascending by rule id and holds no two rules with the same id, one rule per
\* rule block that splitByH2Rule delivers; a document in which two of these
\* blocks declare the same id makes the parse fail, wherever the two blocks
\* stand.
C16_RulesSortedNoDuplicate ==
    resp.op = "parseGlobalRulesMarkdown" =>
      LET blocks == RuleBlocksOf(resp.module)
      IN /\ resp.result.ok =>
               LET rules == resp.result.rules
               IN /\ Len(rules) = Len(blocks)
                  /\ \A i, j \in 1..Len(rules) :
                        i < j => /\ LocaleCompare(rules[i].id, rules[j].id) <= 0
                                 /\ rules[i].id # rules[j].id
         /\ (\E i, j \in 1..Len(blocks) :
                /\ i # j
                /\ RuleIdOf(resp.module, blocks[i]).ok
                /\ RuleIdOf(resp.module, blocks[j]).ok
                /\ RuleIdOf(resp.module, blocks[i]).rule.id
                      = RuleIdOf(resp.module, blocks[j]).rule.id)
              => ~resp.result.ok

\* C16 for the parser of the TypeScript source alone
SourceRulesSortedNoDuplicate ==
    (resp.op = "parseGlobalRulesMarkdown" /\ resp.module = "typescript") =>
      C16_RulesSortedNoDuplicate

\* the rule lists of either parser are sorted ascending by rule id
RulesSorted ==
    (resp.op = "parseGlobalRulesMarkdown" /\ resp.result.ok) =>
      \A i, j \in 1..Len(resp.result.rules) :
         i < j => LocaleCompare(resp.result.rules[i].id, resp.result.rules[j].id) <= 0

\* C10 as stated: the cache_ttl_seconds returned is the document's declared
\* cache_ttl_seconds whenever the document declares one, the index's
\* otherwise; the catalog_revision returned is the index's.
C10_DeclaredTtlWins ==
    Ruled =>
      LET declared == baseline.data.cache_ttl_seconds
      IN /\ resp.result.cache_ttl_seconds =
                IF declared # NoNumber THEN declared.value
                ELSE patternIndex.cache.cache_ttl_seconds
         /\ resp.result.catalog_revision = patternIndex.cache.catalog_revision

\* C10, amended: the cache_ttl_seconds returned by getGlobalRules is the
\* document's declared cache_ttl_seconds whenever the document declares it
\* as a number (0 included), and the index's cache_ttl_seconds otherwise
\* (nothing declared, or a value that is not a number); the
\* catalog_revision returned is always the index's.
C10_DeclaredNumberWins ==
    Ruled =>
      LET declared == baseline.data.cache_ttl_seconds
      IN /\ resp.result.cache_ttl_seconds =
                IF declared.type = "number" THEN declared.value
                ELSE patternIndex.cache.cache_ttl_seconds
         /\ resp.result.catalog_revision = patternIndex.cache.catalog_revision

\* C10 witness: the document declares the number 0, the index a positive
\* time to live, and the response carries 0.
C10_Witness ==
    /\ Ruled
    /\ baseline.data.cache_ttl_seconds = [type |-> "number", value |-> 0]
    /\ patternIndex.cache.cache_ttl_seconds > 0
    /\ resp.result.cache_ttl_seconds = 0

====
